---- MODULE Spec2Model ----
(***************************************************************************)
(* The node runtime of edp_node (crates/edp_node/src/node.rs): start,      *)
(* connect, the per-connection receiver task and its routing, the process  *)
(* registry, remote writes under the per-connection mutex, and rpc_call.   *)
(*                                                                         *)
(* Caller tasks run one Node operation at a time.  An operation with       *)
(* suspension points (an .await on the connection mutex, on a socket write *)
(* or on the reply of an RPC) is one action per suspension point.  The     *)
(* peer is a black box that answers the handshake, sends frames and closes *)
(* the stream.                                                             *)
(***************************************************************************)
EXTENDS Integers, Sequences, FiniteSets, TLC

\* ------------------------------------------------------------------ bounds
MaxOps == 3        \* operations the callers start in one run
MaxFrames == 2     \* frames the peer sends on one connection
MaxConns == 2      \* Connection objects constructed in one run
MaxWorkers == 2    \* worker threads of the runtime (1: current_thread)

Tasks == {"t1", "t2"}
Conns == 1..MaxConns
None == "none"

\* Option<T>: NoneV, or Some(x).
NoneV == <<>>
Some(x) == <<x>>
IsSome(o) == o # <<>>
Unwrap(o) == o[1]

\* Node names are character sequences, so that split_once('@') is computed.
GoodName == <<"a", "@", "h">>
BadName == <<"a">>
PeerName == <<"b", "@", "h">>
Peers == {PeerName}
RegNames == {"echo"}
\* start(port) and what register_node gets back from the port-mapper: a
\* creation, or an error.
StartInputs == {[port |-> 0, ok |-> TRUE, creation |-> 2],
                [port |-> 4000, ok |-> TRUE, creation |-> 3],
                [port |-> 0, ok |-> FALSE, creation |-> 0]}

\* ------------------------------------------------------------------- state
VARIABLES
    name,               \* Node.name
    workers,            \* worker threads of the runtime the node runs on
    started,            \* Node.started
    creation,           \* Node.creation
    listen_port,        \* Node.listen_port
    epmd_calls,         \* register_node requests sent to the port-mapper
    next_id,            \* PidAllocator: next id
    next_serial,        \* PidAllocator: serial
    alloc_creation,     \* PidAllocator: creation
    reference_counter,  \* Node.reference_counter
    procs,              \* registry: pids that have a handle
    mailbox,            \* registry: pid -> queue of messages
    links,              \* registry: pid -> link set
    monitors,           \* registry: pid -> set of <<monitoring pid, reference>>
    names,              \* registry: set of <<name, pid>>
    connections,        \* Node.connections: peer name -> Connection
    nconn,              \* Connection objects constructed so far
    conn_peer,          \* Connection -> peer name
    conn_hs,            \* Connection -> handshake state
    conn_mutex,         \* Connection -> task that holds its Mutex, or None
    out,                \* Connection -> chunks written to the socket
    inq,                \* Connection -> frames sent by the peer, not yet read
    nsent,              \* Connection -> frames the peer has sent
    open,               \* Connection -> the peer has not closed the stream
    rpc,                \* Connection -> position of its receiver task
    rcur,               \* Connection -> frame the receiver is routing
    pending_rpcs,       \* Node.pending_rpcs: key -> oneshot channel
    chan,               \* oneshot channels created by rpc_call_raw
    pc,                 \* caller task -> position
    loc,                \* caller task -> locals of the running operation
    ret,                \* the operation that returned last, and its result
    ops                 \* operations started so far

vars == <<name, workers, started, creation, listen_port, epmd_calls, next_id,
          next_serial, alloc_creation, reference_counter, procs, mailbox,
          links, monitors, names, connections, nconn, conn_peer, conn_hs,
          conn_mutex, out, inq, nsent, open, rpc, rcur, pending_rpcs, chan,
          pc, loc, ret, ops>>

nodeVars == <<name, workers, started, creation, listen_port, epmd_calls>>
allocVars == <<next_id, next_serial, alloc_creation>>
regVars == <<procs, mailbox, links, monitors, names>>
connVars == <<connections, nconn, conn_peer, conn_hs, conn_mutex, out, open>>
wireVars == <<inq, nsent>>
recvVars == <<rpc, rcur>>
rpcVars == <<pending_rpcs, chan>>

\* ----------------------------------------------------------------- helpers
\* Node::start: self.name.as_str().split_once('@') succeeds.
HasAt(s) == \E i \in DOMAIN s : s[i] = "@"

\* A partial function with key k removed / set.
Without(f, k) == [x \in DOMAIN f \ {k} |-> f[x]]
Put(f, k, v) == [x \in DOMAIN f \cup {k} |-> IF x = k THEN v ELSE f[x]]

\* PidAllocator (edp_client): ids count up to the 28-bit boundary, then the
\* serial is bumped and the id starts again.
IdLimit == 268435456
AllocPid == [node |-> name, id |-> next_id, serial |-> next_serial,
             creation |-> alloc_creation]
\* An allocator that hands out the same pid again.
AllocStuck == UNCHANGED allocVars

AllocAdvance ==
    /\ next_id' = IF next_id + 1 >= IdLimit THEN 0 ELSE next_id + 1
    /\ next_serial' = IF next_id + 1 >= IdLimit
                      THEN next_serial + 1 ELSE next_serial
    /\ UNCHANGED alloc_creation

\* A table key that leaves the id out: every reply pid of one serial and
\* creation would share it.
PidKeyNoId(pid) == <<pid.serial, pid.creation>>

\* format!("{}.{}.{}", pid.id, pid.serial, pid.creation): the key of the
\* pending-RPC table.  The node atom is not part of it.
PidKey(pid) == <<pid.id, pid.serial, pid.creation>>

\* Pids on the peer node, for remote sends, links and monitors.
RemotePids == {[node |-> PeerName, id |-> i, serial |-> 0, creation |-> 1] : i \in {7, 8}}
RemoteTarget == [node |-> PeerName, id |-> 7, serial |-> 0, creation |-> 1]

\* reference_counter.fetch_add(1): the value before the add, and the value
\* the counter holds after it.  The counter is an AtomicU32 and the add wraps;
\* the model holds its 32 bits as a two's-complement integer, so 0xFFFFFFFF
\* is -1 and the step from -1 to 0 is the wrap from 2^32 - 1 to 0.
FetchAdd ==
    [val |-> reference_counter,
     next |-> IF reference_counter = 2147483647
              THEN -2147483647 - 1 ELSE reference_counter + 1]

NoLoc == [op |-> None, peer |-> NoneV, conn |-> 0, pid |-> NoneV, chan |-> 0,
          from |-> NoneV, to |-> NoneV, ref |-> NoneV, fid |-> 0, reason |-> NoneV]
NoFrame == [kind |-> None]

\* Result<T>: the operation, Ok or the error kind, and the value of an Ok.
Result(t, op, res) == [task |-> t, op |-> op, res |-> res, val |-> NoneV]

Idle(t) == pc[t] = "idle"
\* Callers are interchangeable: the next operation goes to the first idle task.
CanStart(t) == Idle(t) /\ ops < MaxOps /\ (t = "t2" => ~Idle("t1"))

\* Tasks that hold a dashmap Ref into `connections` (the read lock of the
\* entry's shard): from connections.get() to the end of the `if let` block.
GuardHolders(p) ==
    {t \in Tasks : pc[t] \in {"lock", "write1", "write2"} /\ loc[t].peer = Some(p)}

\* Tasks and receivers inside a blocking dashmap write (insert, remove):
\* each occupies a worker thread until the shard's readers are gone.
BusyCount == Cardinality({t \in Tasks : pc[t] = "inserting"})
             + Cardinality({c \in Conns : rpc[c] = "removing"})
CanRun(t) == pc[t] = "inserting" \/ BusyCount < workers
CanRunRecv(c) == rpc[c] = "removing" \/ BusyCount < workers

\* -------------------------------------------------------------------- Init
Init ==
    /\ name \in {GoodName, BadName}
    /\ workers \in 1..MaxWorkers
    /\ started = FALSE
    /\ creation = 1
    /\ listen_port = NoneV
    /\ epmd_calls = 0
    /\ next_id = 0
    /\ next_serial = 0
    /\ alloc_creation = 1
    /\ reference_counter = 0
    /\ procs = {}
    /\ mailbox = <<>>
    /\ links = <<>>
    /\ monitors = <<>>
    /\ names = {}
    /\ connections = <<>>
    /\ nconn = 0
    /\ conn_peer = [c \in Conns |-> NoneV]
    /\ conn_hs = [c \in Conns |-> "init"]
    /\ conn_mutex = [c \in Conns |-> None]
    /\ out = [c \in Conns |-> <<>>]
    /\ inq = [c \in Conns |-> <<>>]
    /\ nsent = [c \in Conns |-> 0]
    /\ open = [c \in Conns |-> FALSE]
    /\ rpc = [c \in Conns |-> "none"]
    /\ rcur = [c \in Conns |-> NoFrame]
    /\ pending_rpcs = <<>>
    /\ chan = <<>>
    /\ pc = [t \in Tasks |-> "idle"]
    /\ loc = [t \in Tasks |-> NoLoc]
    /\ ret = Result(None, None, None)
    /\ ops = 0

\* Every operation that has suspended returns through here.
Return(t, r) ==
    /\ pc' = [pc EXCEPT ![t] = "idle"]
    /\ loc' = [loc EXCEPT ![t] = NoLoc]
    /\ ret' = Result(t, loc[t].op, r)

\* A start without the `started.swap(true)` test.
StartUnguarded(reply) ==
    IF ~HasAt(name) THEN [res |-> "EpmdRegistration", epmd |-> FALSE, set |-> FALSE]
    ELSE IF ~reply.ok THEN [res |-> "EpmdRegistration", epmd |-> TRUE, set |-> FALSE]
    ELSE [res |-> "Ok", epmd |-> TRUE, set |-> TRUE]

\* ------------------------------------------------------------- Node::start
\* register_node at the port-mapper answers a creation or an error.
StartOutcome(reply) ==
    IF started THEN [res |-> "NodeAlreadyStarted", epmd |-> FALSE, set |-> FALSE]
    ELSE IF ~HasAt(name) THEN [res |-> "EpmdRegistration", epmd |-> FALSE, set |-> FALSE]
    ELSE IF ~reply.ok THEN [res |-> "EpmdRegistration", epmd |-> TRUE, set |-> FALSE]
    ELSE [res |-> "Ok", epmd |-> TRUE, set |-> TRUE]

\* start takes &mut self: no other Node operation is in flight.
Start(t, reply) ==
    /\ CanStart(t) /\ CanRun(t)
    /\ \A u \in Tasks : Idle(u)
    /\ LET o == StartOutcome(reply) IN
        /\ started' = TRUE
        /\ epmd_calls' = IF o.epmd THEN epmd_calls + 1 ELSE epmd_calls
        /\ creation' = IF o.set THEN reply.creation ELSE creation
        /\ alloc_creation' = IF o.set THEN reply.creation ELSE alloc_creation
        /\ listen_port' = IF o.set THEN Some(reply.port) ELSE listen_port
        /\ ret' = Result(t, "start", o.res)
    /\ ops' = ops + 1
    /\ UNCHANGED <<name, workers, next_id, next_serial, reference_counter, pc, loc>>
    /\ UNCHANGED <<regVars, connVars, wireVars, recvVars, rpcVars>>

\* ------------------------------------------------------- ProcessRegistry
\* registry.get(pid): the handle, when the pid has one.
RegistryHas(pid) == pid \in procs

\* registry.whereis(name)
WhereIs(n) ==
    IF \E e \in names : e[1] = n
    THEN Some((CHOOSE e \in names : e[1] = n)[2]) ELSE NoneV

\* A register that binds the name whether or not it resolves.
RegistryRegisterAlways(n, pid) == [res |-> "Ok", names |-> names \cup {<<n, pid>>}]

\* registry.register(name, pid): fails when the name already resolves.
RegistryRegister(n, pid) ==
    IF IsSome(WhereIs(n))
    THEN [res |-> "NameAlreadyRegistered", names |-> names]
    ELSE [res |-> "Ok", names |-> names \cup {<<n, pid>>}]

\* registry.unregister(name): fails when the name does not resolve.
RegistryUnregister(n) ==
    IF IsSome(WhereIs(n))
    THEN [res |-> "Ok", names |-> {e \in names : e[1] # n}]
    ELSE [res |-> "NameNotRegistered", names |-> names]

\* The mailbox of a process is closed from the moment its executor runs the
\* termination path; its handle stays in the registry until the path's end.
MailboxClosed(pid) ==
    \E t \in Tasks : loc[t].op = "terminate" /\ loc[t].from = Some(pid)

\* handle.send(msg): the message joins the end of the pid's queue; a closed
\* mailbox takes nothing and the send returns Err(MailboxClosed).
Enqueue(mb, pid, msg) ==
    IF MailboxClosed(pid) THEN mb ELSE [mb EXCEPT ![pid] = Append(@, msg)]

Regular(body) == [type |-> "Regular", from |-> NoneV, body |-> body]

\* Where a queued message came from: the connection and the position of its
\* frame in that connection's stream (connection 0: a local send).
TagOf(m) == IF m.type = "Regular" THEN m.body ELSE m.tag

\* Node::register
Register(t, n, pid) ==
    /\ CanStart(t) /\ CanRun(t)
    /\ LET r == RegistryRegister(n, pid) IN
        /\ names' = r.names
        /\ ret' = Result(t, "register", r.res)
    /\ ops' = ops + 1
    /\ UNCHANGED <<nodeVars, allocVars, reference_counter, procs, mailbox, links,
                   monitors, connVars, wireVars, recvVars, rpcVars, pc, loc>>

\* Node::unregister
Unregister(t, n) ==
    /\ CanStart(t) /\ CanRun(t)
    /\ LET r == RegistryUnregister(n) IN
        /\ names' = r.names
        /\ ret' = Result(t, "unregister", r.res)
    /\ ops' = ops + 1
    /\ UNCHANGED <<nodeVars, allocVars, reference_counter, procs, mailbox, links,
                   monitors, connVars, wireVars, recvVars, rpcVars, pc, loc>>

\* A spawn that does not look at the started flag.
SpawnUnchecked(t) ==
    /\ CanStart(t) /\ CanRun(t)
    /\ ops' = ops + 1
    /\ LET pid == AllocPid IN
        /\ AllocAdvance
        /\ procs' = procs \cup {pid}
        /\ mailbox' = Put(mailbox, pid, <<>>)
        /\ links' = Put(links, pid, {})
        /\ monitors' = Put(monitors, pid, {})
        /\ ret' = [Result(t, "spawn", "Ok") EXCEPT !.val = Some(pid)]
    /\ UNCHANGED <<nodeVars, reference_counter, names, connVars, wireVars,
                   recvVars, rpcVars, pc, loc>>

\* Node::spawn
Spawn(t) ==
    /\ CanStart(t) /\ CanRun(t)
    /\ ops' = ops + 1
    /\ IF ~started
       THEN /\ ret' = Result(t, "spawn", "NodeNotStarted")
            /\ UNCHANGED <<allocVars, procs, mailbox, links, monitors>>
       ELSE LET pid == AllocPid IN
            /\ AllocAdvance
            /\ procs' = procs \cup {pid}
            /\ mailbox' = Put(mailbox, pid, <<>>)
            /\ links' = Put(links, pid, {})
            /\ monitors' = Put(monitors, pid, {})
            /\ ret' = [Result(t, "spawn", "Ok") EXCEPT !.val = Some(pid)]
    /\ UNCHANGED <<nodeVars, reference_counter, names, connVars, wireVars,
                   recvVars, rpcVars, pc, loc>>

\* ----------------------------------------------------- handshake (4.3, 4.7)
\* What the peer answers during one handshake: the status, the tag of its
\* challenge frame, the tag of its ack frame and whether the ack's digest is
\* the MD5 of (cookie, our challenge).
HandshakeAnswers ==
    [status : {"ok", "ok_simultaneous", "nok", "not_allowed", "alive", "timeout"},
     challenge : {"N", "x"}, ack : {"a", "x"}, digest : BOOLEAN]

\* init -> name-sent -> status-received -> challenge-received -> reply-sent
\* -> established | failed, one frame read per transition.
HandshakeStep(st, a) ==
    CASE st = "init" -> "name_sent"
      [] st = "name_sent" ->
            IF a.status \in {"ok", "ok_simultaneous"} THEN "status_received" ELSE "failed"
      [] st = "status_received" ->
            IF a.challenge = "N" THEN "challenge_received" ELSE "failed"
      [] st = "challenge_received" -> "reply_sent"
      [] st = "reply_sent" ->
            IF a.ack = "a" /\ a.digest THEN "established" ELSE "failed"
      [] OTHER -> st

RECURSIVE HandshakeRun(_, _)
HandshakeRun(st, a) ==
    IF st \in {"established", "failed"} THEN st
    ELSE HandshakeRun(HandshakeStep(st, a), a)

\* ----------------------------------------------------------- Node::connect
\* A connect without the contains_key test.
ConnectAlways(t, p) ==
    /\ CanStart(t) /\ CanRun(t)
    /\ ops' = ops + 1
    /\ nconn < MaxConns
    /\ nconn' = nconn + 1
    /\ conn_peer' = [conn_peer EXCEPT ![nconn + 1] = Some(p)]
    /\ conn_hs' = [conn_hs EXCEPT ![nconn + 1] = "init"]
    /\ loc' = [loc EXCEPT ![t] = [NoLoc EXCEPT !.op = "connect", !.peer = Some(p),
                                                !.conn = nconn + 1]]
    /\ pc' = [pc EXCEPT ![t] = "handshake"]
    /\ UNCHANGED ret
    /\ UNCHANGED <<nodeVars, allocVars, reference_counter, regVars, connections,
                   conn_mutex, out, open, wireVars, recvVars, rpcVars>>

\* contains_key: already connected, return Ok.  Otherwise Connection::new.
ConnectBegin(t, p) ==
    /\ CanStart(t) /\ CanRun(t)
    /\ ops' = ops + 1
    /\ IF p \in DOMAIN connections
       THEN /\ ret' = [Result(t, "connect", "Ok") EXCEPT !.val = Some([path |-> "already connected"])]
            /\ UNCHANGED <<nconn, conn_peer, conn_hs, pc, loc>>
       ELSE /\ nconn < MaxConns
            /\ nconn' = nconn + 1
            /\ conn_peer' = [conn_peer EXCEPT ![nconn + 1] = Some(p)]
            /\ conn_hs' = [conn_hs EXCEPT ![nconn + 1] = "init"]
            /\ loc' = [loc EXCEPT ![t] = [NoLoc EXCEPT !.op = "connect", !.peer = Some(p),
                                                        !.conn = nconn + 1]]
            /\ pc' = [pc EXCEPT ![t] = "handshake"]
            /\ UNCHANGED ret
    /\ UNCHANGED <<nodeVars, allocVars, reference_counter, regVars, connections,
                   conn_mutex, out, open, wireVars, recvVars, rpcVars>>

\* A connect that goes on to the insert whatever the handshake returned.
ConnectIgnoresHandshake(t, hs) ==
    /\ pc' = [pc EXCEPT ![t] = "inserting"]
    /\ UNCHANGED <<ret, loc>>

\* conn.connect().await?: a failed handshake returns the error.
ConnectAfterHandshake(t, hs) ==
    IF hs = "established"
    THEN /\ pc' = [pc EXCEPT ![t] = "inserting"]
         /\ UNCHANGED <<ret, loc>>
    ELSE Return(t, "Client")

ConnectHandshake(t, a) ==
    /\ pc[t] = "handshake" /\ CanRun(t)
    /\ LET c == loc[t].conn
           hs == HandshakeRun(conn_hs[c], a) IN
        /\ conn_hs' = [conn_hs EXCEPT ![c] = hs]
        /\ open' = [open EXCEPT ![c] = (hs = "established")]
        /\ ConnectAfterHandshake(t, hs)
    /\ UNCHANGED <<nodeVars, allocVars, reference_counter, regVars, connections,
                   nconn, conn_peer, conn_mutex, out, wireVars, recvVars, rpcVars,
                   ops>>

\* connections.insert (waits for the shard's readers), spawn_receiver_task.
ConnectInsert(t) ==
    /\ pc[t] = "inserting"
    /\ GuardHolders(Unwrap(loc[t].peer)) = {}
    /\ connections' = Put(connections, Unwrap(loc[t].peer), loc[t].conn)
    /\ rpc' = [rpc EXCEPT ![loc[t].conn] = "recv"]
    /\ Return(t, "Ok")
    /\ UNCHANGED <<nodeVars, allocVars, reference_counter, regVars, nconn,
                   conn_peer, conn_hs, conn_mutex, out, open, wireVars, rcur,
                   rpcVars, ops>>

\* ---------------------------------------------------------------- the peer
\* Pids an inbound frame may be addressed to.
ReplyPids == {chan[k].pid : k \in DOMAIN chan}
InboundTargets ==
    procs \cup ReplyPids \cup {[pid EXCEPT !.node = PeerName] : pid \in ReplyPids}

InboundFrames ==
    [kind : {"Send"}, to : InboundTargets]
    \cup [kind : {"RegSend"}, to_name : RegNames]
    \cup [kind : {"Exit"}, from : RemotePids, to : InboundTargets, reason : {"normal"}]
    \cup [kind : {"MonitorPExit"}, from : RemotePids, to : InboundTargets,
          ref : {<<PeerName, 1>>}, reason : {"normal"}]
    \cup [kind : {"Other", "DecodeError"}]

\* The peer writes its next frame on connection c; the frame's payload is
\* identified by the connection and its position in the stream.
\* The payload of a frame: where it came from, and its term when the model
\* follows the term.
Payload(c, f) ==
    IF "term" \in DOMAIN f
    THEN [c |-> c, n |-> nsent[c] + 1, term |-> f.term]
    ELSE [c |-> c, n |-> nsent[c] + 1]

PeerSend(c, f) ==
    /\ conn_hs[c] = "established" /\ open[c]
    /\ nsent[c] < MaxFrames
    /\ nsent' = [nsent EXCEPT ![c] = @ + 1]
    /\ inq' = [inq EXCEPT ![c] = Append(@, [f |-> f, body |-> Payload(c, f)])]
    /\ UNCHANGED <<nodeVars, allocVars, reference_counter, regVars, connVars,
                   recvVars, rpcVars, pc, loc, ret, ops>>

PeerClose(c) ==
    /\ conn_hs[c] = "established" /\ open[c]
    /\ open' = [open EXCEPT ![c] = FALSE]
    /\ UNCHANGED <<nodeVars, allocVars, reference_counter, regVars, connections,
                   nconn, conn_peer, conn_hs, conn_mutex, out, wireVars, recvVars,
                   rpcVars, pc, loc, ret, ops>>

\* ------------------------------------------------------- the receiver task
\* oneshot::Sender::send: the value reaches the receiver unless it was dropped.
OneshotSend(ch, to, body) ==
    IF ch.st = "open"
    THEN [ch EXCEPT !.st = "value", !.val = Some(body), !.to = Some(to), !.n = @ + 1]
    ELSE ch

\* pending_rpcs.remove(&pid_str) hands the sender out of the table.
RouteTake(key) == Without(pending_rpcs, key)

\* Node::route_message, ControlMessage::Send
RouteSend(f, body) ==
    IF RegistryHas(f.to)
    THEN /\ mailbox' = Enqueue(mailbox, f.to, Regular(body))
         /\ UNCHANGED rpcVars
    ELSE LET key == PidKey(f.to) IN
         IF key \in DOMAIN pending_rpcs
         THEN /\ pending_rpcs' = RouteTake(key)
              /\ chan' = [chan EXCEPT ![pending_rpcs[key]] = OneshotSend(@, f.to, body)]
              /\ UNCHANGED mailbox
         ELSE UNCHANGED <<mailbox, rpcVars>>

\* A RegSend that is delivered twice.
RouteRegSendTwice(f, body) ==
    /\ IF IsSome(WhereIs(f.to_name)) /\ RegistryHas(Unwrap(WhereIs(f.to_name)))
       THEN mailbox' = Enqueue(Enqueue(mailbox, Unwrap(WhereIs(f.to_name)), Regular(body)),
                               Unwrap(WhereIs(f.to_name)), Regular(body))
       ELSE UNCHANGED mailbox
    /\ UNCHANGED rpcVars

\* Node::route_message, ControlMessage::RegSend
RouteRegSend(f, body) ==
    /\ IF IsSome(WhereIs(f.to_name)) /\ RegistryHas(Unwrap(WhereIs(f.to_name)))
       THEN mailbox' = Enqueue(mailbox, Unwrap(WhereIs(f.to_name)), Regular(body))
       ELSE UNCHANGED mailbox
    /\ UNCHANGED rpcVars

\* An exit signal delivered with its reason replaced by "normal".
RouteExitNormal(f, tag) ==
    /\ IF RegistryHas(f.to)
       THEN mailbox' = Enqueue(mailbox, f.to,
                [type |-> "Exit", from |-> f.from, reason |-> "normal", tag |-> tag])
       ELSE UNCHANGED mailbox
    /\ UNCHANGED rpcVars

\* Node::route_message, ControlMessage::Exit
RouteExit(f, tag) ==
    /\ IF RegistryHas(f.to)
       THEN mailbox' = Enqueue(mailbox, f.to,
                [type |-> "Exit", from |-> f.from, reason |-> f.reason, tag |-> tag])
       ELSE UNCHANGED mailbox
    /\ UNCHANGED rpcVars

\* Node::route_message, ControlMessage::MonitorPExit
RouteMonitorPExit(f, tag) ==
    /\ IF RegistryHas(f.to)
       THEN mailbox' = Enqueue(mailbox, f.to,
                [type |-> "MonitorExit", monitored |-> f.from, reference |-> f.ref,
                 reason |-> f.reason, tag |-> tag])
       ELSE UNCHANGED mailbox
    /\ UNCHANGED rpcVars

\* The process route_message sends to, when the frame has one: the pid of a
\* Send, Exit or MonitorPExit that has a handle, the pid a RegSend's name
\* resolves to.
RouteTarget(m) ==
    CASE m.f.kind \in {"Send", "Exit", "MonitorPExit"} ->
            IF RegistryHas(m.f.to) THEN Some(m.f.to) ELSE NoneV
      [] m.f.kind = "RegSend" ->
            IF IsSome(WhereIs(m.f.to_name)) /\ RegistryHas(Unwrap(WhereIs(m.f.to_name)))
            THEN WhereIs(m.f.to_name) ELSE NoneV
      [] OTHER -> NoneV

\* route_message returns Err: `handle.send(..).await?` on a closed mailbox.
RouteFails(m) == IsSome(RouteTarget(m)) /\ MailboxClosed(Unwrap(RouteTarget(m)))

RouteMessage(m) ==
    CASE m.f.kind = "Send" -> RouteSend(m.f, m.body)
      [] m.f.kind = "RegSend" -> RouteRegSend(m.f, m.body)
      [] m.f.kind = "Exit" -> RouteExit(m.f, m.body)
      [] m.f.kind = "MonitorPExit" -> RouteMonitorPExit(m.f, m.body)
      [] OTHER -> UNCHANGED <<mailbox, rpcVars>>

\* A receiver that takes the newest unread frame.
NewestFrameIndex(c) == Len(inq[c])

\* The frame the receiver takes from the stream: the oldest unread one.
NextFrameIndex(c) == 1

\* A receiver that leaves its loop on a decode error as on any other error.
RecvReadFatal(c) ==
    /\ rpc[c] = "recv" /\ CanRunRecv(c)
    /\ inq[c] # <<>>
    /\ LET i == NextFrameIndex(c)
           m == inq[c][i] IN
        /\ inq' = [inq EXCEPT ![c] = SubSeq(@, 1, i - 1) \o SubSeq(@, i + 1, Len(@))]
        /\ IF m.f.kind = "DecodeError"
           THEN /\ rpc' = [rpc EXCEPT ![c] = "removing"]
                /\ UNCHANGED rcur
           ELSE /\ rcur' = [rcur EXCEPT ![c] = m]
                /\ rpc' = [rpc EXCEPT ![c] = "route"]
    /\ UNCHANGED <<nodeVars, allocVars, reference_counter, regVars, connVars,
                   nsent, rpcVars, pc, loc, ret, ops>>

\* receive_message_from_read_half returns the next frame; a decode error is
\* logged and the loop continues with the frame after it.
RecvRead(c) ==
    /\ rpc[c] = "recv" /\ CanRunRecv(c)
    /\ inq[c] # <<>>
    /\ LET i == NextFrameIndex(c)
           m == inq[c][i] IN
        /\ inq' = [inq EXCEPT ![c] = SubSeq(@, 1, i - 1) \o SubSeq(@, i + 1, Len(@))]
        /\ IF m.f.kind = "DecodeError"
           THEN UNCHANGED recvVars
           ELSE /\ rcur' = [rcur EXCEPT ![c] = m]
                /\ rpc' = [rpc EXCEPT ![c] = "route"]
    /\ UNCHANGED <<nodeVars, allocVars, reference_counter, regVars, connVars,
                   nsent, rpcVars, pc, loc, ret, ops>>

\* A receiver that leaves its loop when a message could not be routed.
RecvRouteOrStop(c) ==
    /\ rpc[c] = "route" /\ CanRunRecv(c)
    /\ RouteMessage(rcur[c])
    /\ rpc' = [rpc EXCEPT ![c] = IF RouteFails(rcur[c]) THEN "removing" ELSE "recv"]
    /\ rcur' = [rcur EXCEPT ![c] = NoFrame]
    /\ UNCHANGED <<nodeVars, allocVars, reference_counter, procs, links, monitors,
                   names, connVars, wireVars, pc, loc, ret, ops>>

\* Self::route_message(...).await, then back to the top of the loop: an Err
\* is logged and nothing else.
RecvRoute(c) ==
    /\ rpc[c] = "route" /\ CanRunRecv(c)
    /\ RouteMessage(rcur[c])
    /\ rpc' = [rpc EXCEPT ![c] = "recv"]
    /\ rcur' = [rcur EXCEPT ![c] = NoFrame]
    /\ UNCHANGED <<nodeVars, allocVars, reference_counter, procs, links, monitors,
                   names, connVars, wireVars, pc, loc, ret, ops>>

\* Any other receive error breaks out of the loop: the stream ended, or no
\* frame came within the connection's timeout.
RecvFail(c) ==
    /\ rpc[c] = "recv" /\ CanRunRecv(c)
    /\ inq[c] = <<>>
    /\ rpc' = [rpc EXCEPT ![c] = "removing"]
    /\ UNCHANGED <<nodeVars, allocVars, reference_counter, regVars, connVars,
                   wireVars, rcur, rpcVars, pc, loc, ret, ops>>

\* connections.remove(&remote_node): waits for the shard's readers.
RecvRemove(c) ==
    /\ rpc[c] = "removing"
    /\ GuardHolders(Unwrap(conn_peer[c])) = {}
    /\ connections' = Without(connections, Unwrap(conn_peer[c]))
    /\ rpc' = [rpc EXCEPT ![c] = "exited"]
    /\ UNCHANGED <<nodeVars, allocVars, reference_counter, regVars, nconn,
                   conn_peer, conn_hs, conn_mutex, out, open, wireVars, rcur,
                   rpcVars, pc, loc, ret, ops>>

\* ------------------------------------------ writes on a connection's socket
\* A lock that never waits.
MutexIgnored(c) == TRUE

\* conn.lock().await: the tokio Mutex of the Connection is free.
MutexFree(c) == conn_mutex[c] = None

Lock(t) ==
    /\ pc[t] = "lock" /\ CanRun(t)
    /\ MutexFree(loc[t].conn)
    /\ conn_mutex' = [conn_mutex EXCEPT ![loc[t].conn] = t]
    /\ pc' = [pc EXCEPT ![t] = "write1"]
    /\ UNCHANGED <<nodeVars, allocVars, reference_counter, regVars, connections,
                   nconn, conn_peer, conn_hs, out, open, wireVars, recvVars,
                   rpcVars, loc, ret, ops>>

\* A frame reaches the socket in two writes: the length prefix and control
\* term, then the rest (the payload term, when the operation has one).
\* A chunk is tagged with the operation it belongs to and with the pids and
\* the reference or unlink id its control message names.
Chunk(t, part) == [fid |-> loc[t].fid, op |-> loc[t].op, part |-> part,
                   from |-> loc[t].from, to |-> loc[t].to, ref |-> loc[t].ref]

Write1(t) ==
    /\ pc[t] = "write1" /\ CanRun(t)
    /\ open[loc[t].conn]
    /\ out' = [out EXCEPT ![loc[t].conn] = Append(@, Chunk(t, 1))]
    /\ pc' = [pc EXCEPT ![t] = "write2"]
    /\ UNCHANGED <<nodeVars, allocVars, reference_counter, regVars, connections,
                   nconn, conn_peer, conn_hs, conn_mutex, open, wireVars,
                   recvVars, rpcVars, loc, ret, ops>>

\* The frame is complete: the MutexGuard and the dashmap Ref are dropped at
\* the end of the block.  rpc_call_raw goes on to await its reply, every
\* other operation returns Ok.
\* A terminating process goes on to its next notification after one was
\* forwarded, or could not be.
NextNotification(t) ==
    /\ pc' = [pc EXCEPT ![t] = "notify"]
    /\ loc' = [loc EXCEPT ![t].to = NoneV, ![t].peer = NoneV, ![t].conn = 0,
                          ![t].ref = NoneV]
    /\ UNCHANGED ret

Write2(t) ==
    /\ pc[t] = "write2" /\ CanRun(t)
    /\ open[loc[t].conn]
    /\ out' = [out EXCEPT ![loc[t].conn] = Append(@, Chunk(t, 2))]
    /\ conn_mutex' = [conn_mutex EXCEPT ![loc[t].conn] = None]
    /\ IF loc[t].op = "rpc_call"
       THEN /\ pc' = [pc EXCEPT ![t] = "rpc_wait"]
            /\ UNCHANGED <<ret, loc>>
       ELSE IF loc[t].op = "terminate"
       THEN NextNotification(t)
       ELSE /\ pc' = [pc EXCEPT ![t] = "idle"]
            /\ loc' = [loc EXCEPT ![t] = NoLoc]
            /\ ret' = [Result(t, loc[t].op, "Ok") EXCEPT
                         !.val = IF loc[t].op = "monitor" THEN loc[t].ref ELSE NoneV]
    /\ UNCHANGED <<nodeVars, allocVars, reference_counter, regVars, connections,
                   nconn, conn_peer, conn_hs, open, wireVars, recvVars, rpcVars,
                   ops>>

\* The write fails (`?`): before the first byte for a term that cannot be
\* encoded or a dead socket, in the middle of the frame for a dead socket.
WriteFail(t) ==
    /\ pc[t] \in {"write1", "write2"} /\ CanRun(t)
    /\ pc[t] = "write2" => ~open[loc[t].conn]
    /\ conn_mutex' = [conn_mutex EXCEPT ![loc[t].conn] = None]
    /\ IF loc[t].op = "terminate" THEN NextNotification(t) ELSE Return(t, "Client")
    /\ UNCHANGED <<nodeVars, allocVars, reference_counter, regVars, connections,
                   nconn, conn_peer, conn_hs, out, open, wireVars, recvVars,
                   rpcVars, ops>>

\* -------------------------------------------------------------- Node::send
\* A pid of this node that has no handle in the registry.
UnknownLocal == [node |-> name, id |-> 99, serial |-> 0, creation |-> 1]
LocalTargets == procs \cup {UnknownLocal}

\* A send that takes every pid for a pid of this node.
IsLocalAlways(to) == TRUE

\* `to.node == self.name`
IsLocal(to) == to.node = name

\* Node::send for the operation `op` of task t, numbered fid: send_local
\* replies at once, send_remote takes the connection and goes on to write.
SendDispatch(t, op, to, fid) ==
    /\ IF IsLocal(to)
       THEN \* send_local
            /\ IF RegistryHas(to)
               THEN /\ mailbox' = Enqueue(mailbox, to, Regular([c |-> 0, n |-> fid]))
                    /\ ret' = Result(t, op, IF MailboxClosed(to)
                                            THEN "MailboxClosed" ELSE "Ok")
               ELSE /\ ret' = Result(t, op, "ProcessNotFound")
                    /\ UNCHANGED mailbox
            /\ pc' = [pc EXCEPT ![t] = "idle"]
            /\ loc' = [loc EXCEPT ![t] = NoLoc]
            /\ UNCHANGED allocVars
       ELSE \* send_remote
            /\ UNCHANGED mailbox
            /\ IF to.node \in DOMAIN connections
               THEN /\ AllocAdvance
                    /\ loc' = [loc EXCEPT ![t] = [NoLoc EXCEPT !.op = op,
                                   !.to = Some(to), !.peer = Some(to.node),
                                   !.conn = connections[to.node],
                                   !.from = Some(AllocPid), !.fid = fid]]
                    /\ pc' = [pc EXCEPT ![t] = "lock"]
                    /\ UNCHANGED ret
               ELSE /\ ret' = Result(t, op, "NodeNotConnected")
                    /\ pc' = [pc EXCEPT ![t] = "idle"]
                    /\ loc' = [loc EXCEPT ![t] = NoLoc]
                    /\ UNCHANGED allocVars
    /\ UNCHANGED <<nodeVars, reference_counter, procs, links, monitors, names,
                   connVars, wireVars, recvVars, rpcVars>>

Send(t, to) ==
    /\ CanStart(t) /\ CanRun(t)
    /\ ops' = ops + 1
    /\ SendDispatch(t, "send", to, ops + 1)

\* ------------------------------------------------------ Node::send_to_name
\* A lookup that resolves an unregistered name to the first process spawned.
WhereIsOrFirst(n) ==
    IF \E e \in names : e[1] = n
    THEN Some((CHOOSE e \in names : e[1] = n)[2])
    ELSE Some([node |-> name, id |-> 0, serial |-> 0, creation |-> creation])

\* whereis(to).ok_or_else(NameNotRegistered)?
SendToNameLookup(n) == WhereIs(n)

SendToName(t, n) ==
    /\ CanStart(t) /\ CanRun(t)
    /\ ops' = ops + 1
    /\ IF IsSome(SendToNameLookup(n))
       THEN /\ loc' = [loc EXCEPT ![t] = [NoLoc EXCEPT !.op = "send_to_name",
                           !.to = SendToNameLookup(n), !.fid = ops + 1]]
            /\ pc' = [pc EXCEPT ![t] = "resolved"]
            /\ UNCHANGED ret
       ELSE /\ ret' = Result(t, "send_to_name", "NameNotRegistered")
            /\ UNCHANGED <<pc, loc>>
    /\ UNCHANGED <<nodeVars, allocVars, reference_counter, regVars, connVars,
                   wireVars, recvVars, rpcVars>>

\* self.send(&pid, message) with the pid the name resolved to.
SendResolved(t) ==
    /\ pc[t] = "resolved" /\ CanRun(t)
    /\ SendDispatch(t, "send_to_name", Unwrap(loc[t].to), loc[t].fid)
    /\ UNCHANGED ops

\* ------------------------------------------------------ Node::rpc_call_raw
NewChannel(pid) == [pid |-> pid, st |-> "open", val |-> NoneV, to |-> NoneV, n |-> 0]

\* A oneshot::Sender dropped without a send closes its channel.
DropSender(ch) == IF ch.st = "open" THEN [ch EXCEPT !.st = "closed"] ELSE ch

\* A call that creates its channel and leaves the registration for later.
PendingInsertLater(key, k, pid) ==
    /\ chan' = Put(chan, k, NewChannel(pid))
    /\ UNCHANGED pending_rpcs

\* pending_rpcs.insert(pid_str, tx): a sender already under the key is dropped.
PendingInsert(key, k, pid) ==
    /\ pending_rpcs' = Put(pending_rpcs, key, k)
    /\ chan' = IF key \in DOMAIN pending_rpcs
               THEN Put([chan EXCEPT ![pending_rpcs[key]] = DropSender(@)], k, NewChannel(pid))
               ELSE Put(chan, k, NewChannel(pid))

\* pending_rpcs.remove(&pid_str): the sender under the key, if any, is dropped.
PendingRemove(key) ==
    /\ pending_rpcs' = Without(pending_rpcs, key)
    /\ chan' = IF key \in DOMAIN pending_rpcs
               THEN [chan EXCEPT ![pending_rpcs[key]] = DropSender(@)]
               ELSE chan

\* Allocate the reply pid, create the oneshot channel, register the waiter.
RpcBegin(t, p) ==
    /\ CanStart(t) /\ CanRun(t)
    /\ ops' = ops + 1
    /\ LET pid == AllocPid
           k == Cardinality(DOMAIN chan) + 1 IN
        /\ AllocAdvance
        /\ PendingInsert(PidKey(pid), k, pid)
        /\ loc' = [loc EXCEPT ![t] = [NoLoc EXCEPT !.op = "rpc_call", !.peer = Some(p),
                                       !.pid = Some(pid), !.chan = k, !.fid = ops + 1]]
    /\ pc' = [pc EXCEPT ![t] = "rpc_lookup"]
    /\ UNCHANGED <<nodeVars, reference_counter, regVars, connVars, wireVars,
                   recvVars, ret>>

\* self.connections.get(remote_node)
RpcLookup(t) ==
    /\ pc[t] = "rpc_lookup" /\ CanRun(t)
    /\ LET p == Unwrap(loc[t].peer) IN
       IF p \in DOMAIN connections
       THEN /\ loc' = [loc EXCEPT ![t].conn = connections[p]]
            /\ pc' = [pc EXCEPT ![t] = "lock"]
            /\ UNCHANGED <<rpcVars, ret>>
       ELSE /\ PendingRemove(PidKey(Unwrap(loc[t].pid)))
            /\ Return(t, "NodeNotConnected")
    /\ UNCHANGED <<nodeVars, allocVars, reference_counter, regVars, connVars,
                   wireVars, recvVars, ops>>

\* tokio::time::timeout(10 s, rx) elapses: the reply has not arrived.  The
\* receiving half is dropped with the timeout future.
RpcTimeout(t) ==
    /\ pc[t] = "rpc_wait" /\ CanRun(t)
    /\ chan[loc[t].chan].st = "open"
    /\ chan' = [chan EXCEPT ![loc[t].chan].st = "rx_dropped"]
    /\ pc' = [pc EXCEPT ![t] = "rpc_timedout"]
    /\ UNCHANGED <<nodeVars, allocVars, reference_counter, regVars, connVars,
                   wireVars, recvVars, pending_rpcs, loc, ret, ops>>

\* A timeout path that leaves the table alone.
TimeoutKeepsEntry(key) == UNCHANGED <<pending_rpcs, chan>>

\* if response.is_err() { self.pending_rpcs.remove(&pid_str); }
TimeoutCleanup(key) == PendingRemove(key)

RpcTimedOut(t) ==
    /\ pc[t] = "rpc_timedout" /\ CanRun(t)
    /\ TimeoutCleanup(PidKey(Unwrap(loc[t].pid)))
    /\ Return(t, "RpcTimeout")
    /\ UNCHANGED <<nodeVars, allocVars, reference_counter, regVars, connVars,
                   wireVars, recvVars, ops>>

\* rx resolves: Ok(reply), or RecvError when the sender was dropped.
RpcReturn(t) ==
    /\ pc[t] = "rpc_wait" /\ CanRun(t)
    /\ chan[loc[t].chan].st \in {"value", "closed"}
    /\ pc' = [pc EXCEPT ![t] = "idle"]
    /\ loc' = [loc EXCEPT ![t] = NoLoc]
    /\ ret' = IF chan[loc[t].chan].st = "value"
              THEN [Result(t, "rpc_call", "Ok") EXCEPT !.val = chan[loc[t].chan].val]
              ELSE Result(t, "rpc_call", "RpcCancelled")
    /\ UNCHANGED <<nodeVars, allocVars, reference_counter, regVars, connVars,
                   wireVars, recvVars, rpcVars, ops>>

\* ------------------------------------------------------ erltf: OwnedTerm
\* std::cmp::Ordering and its combinators.
Reverse(o) == IF o = "Less" THEN "Greater" ELSE IF o = "Greater" THEN "Less" ELSE "Equal"
ThenWith(o, p) == IF o = "Equal" THEN p ELSE o
\* Ord of the unsigned fields that fit a machine word here (u8, u32, usize).
CmpInt(a, b) == IF a < b THEN "Less" ELSE IF a > b THEN "Greater" ELSE "Equal"

\* Ord of slices ([u8], [u32]): lexicographic from index 0, then the length.
RECURSIVE CmpSlice(_, _)
CmpSlice(a, b) ==
    IF a = <<>> \/ b = <<>> THEN CmpInt(Len(a), Len(b))
    ELSE ThenWith(CmpInt(Head(a), Head(b)), CmpSlice(Tail(a), Tail(b)))

RECURSIVE Rev(_)
Rev(s) == IF s = <<>> THEN <<>> ELSE Append(Rev(Tail(s)), Head(s))

\* The bytes of the strings the terms below use (str::as_bytes).
AsBytes(s) ==
    CASE s = "ok" -> <<111, 107>>
      [] s = "error" -> <<101, 114, 114, 111, 114>>
      [] s = "rex" -> <<114, 101, 120>>
      [] s = "a@h" -> <<97, 64, 104>>
      [] s = "b@h" -> <<98, 64, 104>>
      [] s = "" -> <<>>
\* Ord of str and of Atom (derived on its one field, the name).
CmpStr(a, b) == CmpSlice(AsBytes(a), AsBytes(b))

\* A 64-bit word is its eight bytes, least significant first; an i64 is the
\* word of its two's complement.
I64(v) ==
    IF v >= 0
    THEN [k \in 1..8 |-> IF k <= 4 THEN (v \div (256 ^ (k - 1))) % 256 ELSE 0]
    ELSE [k \in 1..8 |-> IF k <= 4 THEN 255 - (((-(v + 1)) \div (256 ^ (k - 1))) % 256) ELSE 255]
I64Max == [k \in 1..8 |-> IF k = 8 THEN 127 ELSE 255]
I64Min == [k \in 1..8 |-> IF k = 8 THEN 128 ELSE 0]
IsNegativeI64(w) == w[8] >= 128
\* u64::cmp
CmpU64(a, b) == CmpSlice(Rev(a), Rev(b))
\* i64::cmp
CmpI64(a, b) ==
    IF IsNegativeI64(a) # IsNegativeI64(b)
    THEN (IF IsNegativeI64(a) THEN "Less" ELSE "Greater")
    ELSE CmpU64(a, b)
RECURSIVE AddOne(_)
AddOne(w) ==
    IF w = <<>> THEN <<>>
    ELSE IF Head(w) = 255 THEN <<0>> \o AddOne(Tail(w))
    ELSE <<Head(w) + 1>> \o Tail(w)
\* i64::wrapping_neg, read as u64
WrappingNeg(w) == AddOne([k \in 1..8 |-> 255 - w[k]])

\* OwnedTerm values.
AtomTerm(n) == [type |-> "atom", name |-> n]
Integer(w) == [type |-> "integer", w |-> w]
IntTerm(v) == Integer(I64(v))
BigIntTerm(negative, digits) == [type |-> "bigint", negative |-> negative, digits |-> digits]
\* The floats of the model are 0.0 and NaN.
FloatTerm(nan) == [type |-> "float", nan |-> nan]
ReferenceTerm(node, cr, ids) == [type |-> "reference", node |-> node, creation |-> cr, ids |-> ids]
ExternalFunTerm(m, f, a) == [type |-> "external_fun", module |-> m, function |-> f, arity |-> a]
InternalFunTerm(m, index, pid, free) ==
    [type |-> "internal_fun", module |-> m, old_index |-> 0, old_uniq |-> 0,
     index |-> index, uniq |-> [k \in 1..16 |-> 0], pid |-> pid, free_vars |-> free]
PortTerm(node, id, cr) == [type |-> "port", node |-> node, id |-> id, creation |-> cr]
PidTerm(node, id, serial, cr) ==
    [type |-> "pid", node |-> node, id |-> id, serial |-> serial, creation |-> cr]
TupleTerm(es) == [type |-> "tuple", elements |-> es]
\* A BTreeMap is its entries in key order.
MapTerm(entries) == [type |-> "map", entries |-> entries]
NilTerm == [type |-> "nil"]
ListTerm(es) == [type |-> "list", elements |-> es]
ImproperListTerm(es, tail) == [type |-> "improper_list", elements |-> es, tail |-> tail]
BinaryTerm(bytes) == [type |-> "binary", bytes |-> bytes]
BitBinaryTerm(bytes, bits) == [type |-> "bit_binary", bytes |-> bytes, bits |-> bits]
StringTerm(s) == [type |-> "string", s |-> s]

\* bigint_to_u64
BigIntToU64(big) == [k \in 1..8 |-> IF k <= Len(big.digits) THEN big.digits[k] ELSE 0]

\* compare_int_bigint
CompareIntBigInt(i, big) ==
    IF big.digits = <<>> THEN CmpI64(i, I64(0))
    ELSE IF big.negative
    THEN IF ~IsNegativeI64(i) THEN "Greater"
         ELSE IF Len(big.digits) > 8 THEN "Greater"
         ELSE Reverse(CmpU64(WrappingNeg(i), BigIntToU64(big)))
    ELSE IF IsNegativeI64(i) THEN "Less"
         ELSE IF Len(big.digits) > 8 THEN "Less"
         ELSE CmpU64(i, BigIntToU64(big))

\* compare_bigint_int
CompareBigIntInt(big, i) == Reverse(CompareIntBigInt(i, big))

\* compare_bigint
CompareBigInt(a, b) ==
    IF ~a.negative /\ b.negative THEN "Greater"
    ELSE IF a.negative /\ ~b.negative THEN "Less"
    ELSE IF ~a.negative
    THEN ThenWith(CmpInt(Len(a.digits), Len(b.digits)), CmpSlice(a.digits, b.digits))
    ELSE Reverse(ThenWith(CmpInt(Len(a.digits), Len(b.digits)),
                          CmpSlice(a.digits, b.digits)))

\* compare_int_float: `i as f64` keeps the sign of i, and f is 0.0 or NaN.
CompareIntFloat(i, f) ==
    IF f.nan THEN "Less"
    ELSE IF IsNegativeI64(i) THEN "Less"
    ELSE IF i = I64(0) THEN "Equal" ELSE "Greater"
CompareFloatInt(f, i) == Reverse(CompareIntFloat(i, f))

\* compare_bigint_float: bigint_to_f64 is zero exactly when every digit is.
CompareBigIntFloat(big, f) ==
    IF f.nan THEN "Less"
    ELSE IF \A k \in 1..Len(big.digits) : big.digits[k] = 0 THEN "Equal"
    ELSE IF big.negative THEN "Less" ELSE "Greater"
CompareFloatBigInt(f, big) == Reverse(CompareBigIntFloat(big, f))

CompareFloat(a, b) ==
    IF a.nan /\ b.nan THEN "Equal"
    ELSE IF a.nan THEN "Greater"
    ELSE IF b.nan THEN "Less"
    ELSE "Equal"

\* Ord of ExternalPid, derived field by field.
CmpPid(a, b) ==
    ThenWith(CmpStr(a.node, b.node),
    ThenWith(CmpInt(a.id, b.id),
    ThenWith(CmpInt(a.serial, b.serial), CmpInt(a.creation, b.creation))))

\* A rank that puts pids below ports.
TypeOrderPidFirst(t) ==
    CASE t.type \in {"integer", "bigint", "float"} -> 0
      [] t.type = "atom" -> 1
      [] t.type = "reference" -> 2
      [] t.type \in {"external_fun", "internal_fun"} -> 3
      [] t.type = "pid" -> 4
      [] t.type = "port" -> 5
      [] t.type = "tuple" -> 6
      [] t.type = "map" -> 7
      [] t.type \in {"nil", "list", "improper_list"} -> 8
      [] t.type \in {"binary", "bit_binary", "string"} -> 9

\* The closure type_order of cmp.
TypeOrder(t) ==
    CASE t.type \in {"integer", "bigint", "float"} -> 0
      [] t.type = "atom" -> 1
      [] t.type = "reference" -> 2
      [] t.type \in {"external_fun", "internal_fun"} -> 3
      [] t.type = "port" -> 4
      [] t.type = "pid" -> 5
      [] t.type = "tuple" -> 6
      [] t.type = "map" -> 7
      [] t.type \in {"nil", "list", "improper_list"} -> 8
      [] t.type \in {"binary", "bit_binary", "string"} -> 9

RECURSIVE Cmp(_, _)
RECURSIVE CompareTermLists(_, _)
RECURSIVE CmpEntries(_, _)

\* compare_term_lists, and the zip loops of List and ImproperList
CompareTermLists(a, b) ==
    IF a = <<>> \/ b = <<>> THEN CmpInt(Len(a), Len(b))
    ELSE ThenWith(Cmp(Head(a), Head(b)), CompareTermLists(Tail(a), Tail(b)))

\* The zip loop of Map: key, then value, entry by entry.
CmpEntries(a, b) ==
    IF a = <<>> \/ b = <<>> THEN "Equal"
    ELSE ThenWith(Cmp(Head(a)[1], Head(b)[1]),
         ThenWith(Cmp(Head(a)[2], Head(b)[2]), CmpEntries(Tail(a), Tail(b))))

\* The arms of cmp for two terms of one rank.
CmpSameOrder(a, b) ==
    CASE a.type = "integer" /\ b.type = "integer" -> CmpI64(a.w, b.w)
      [] a.type = "integer" /\ b.type = "bigint" -> CompareIntBigInt(a.w, b)
      [] a.type = "bigint" /\ b.type = "integer" -> CompareBigIntInt(a, b.w)
      [] a.type = "bigint" /\ b.type = "bigint" -> CompareBigInt(a, b)
      [] a.type = "integer" /\ b.type = "float" -> CompareIntFloat(a.w, b)
      [] a.type = "float" /\ b.type = "integer" -> CompareFloatInt(a, b.w)
      [] a.type = "bigint" /\ b.type = "float" -> CompareBigIntFloat(a, b)
      [] a.type = "float" /\ b.type = "bigint" -> CompareFloatBigInt(a, b)
      [] a.type = "float" /\ b.type = "float" -> CompareFloat(a, b)
      [] a.type = "atom" /\ b.type = "atom" -> CmpStr(a.name, b.name)
      [] a.type = "reference" /\ b.type = "reference" ->
            ThenWith(CmpStr(a.node, b.node),
            ThenWith(CmpInt(a.creation, b.creation), CmpSlice(a.ids, b.ids)))
      [] a.type = "external_fun" /\ b.type = "external_fun" ->
            ThenWith(CmpStr(a.module, b.module),
            ThenWith(CmpStr(a.function, b.function), CmpInt(a.arity, b.arity)))
      [] a.type = "internal_fun" /\ b.type = "internal_fun" ->
            ThenWith(CmpStr(a.module, b.module),
            ThenWith(CmpInt(a.old_index, b.old_index),
            ThenWith(CmpInt(a.old_uniq, b.old_uniq),
            ThenWith(CmpInt(a.index, b.index),
            ThenWith(CmpSlice(a.uniq, b.uniq),
            ThenWith(CmpPid(a.pid, b.pid),
                     CompareTermLists(a.free_vars, b.free_vars)))))))
      [] a.type = "external_fun" /\ b.type = "internal_fun" -> "Less"
      [] a.type = "internal_fun" /\ b.type = "external_fun" -> "Greater"
      [] a.type = "port" /\ b.type = "port" ->
            ThenWith(CmpStr(a.node, b.node),
            ThenWith(CmpInt(a.id, b.id), CmpInt(a.creation, b.creation)))
      [] a.type = "pid" /\ b.type = "pid" ->
            ThenWith(CmpStr(a.node, b.node),
            ThenWith(CmpInt(a.id, b.id),
            ThenWith(CmpInt(a.serial, b.serial), CmpInt(a.creation, b.creation))))
      [] a.type = "tuple" /\ b.type = "tuple" ->
            ThenWith(CmpInt(Len(a.elements), Len(b.elements)),
                     CompareTermLists(a.elements, b.elements))
      [] a.type = "map" /\ b.type = "map" ->
            ThenWith(CmpInt(Len(a.entries), Len(b.entries)), CmpEntries(a.entries, b.entries))
      [] a.type = "nil" /\ b.type = "nil" -> "Equal"
      [] a.type = "list" /\ b.type = "list" -> CompareTermLists(a.elements, b.elements)
      [] a.type = "list" /\ b.type = "nil" ->
            IF a.elements = <<>> THEN "Equal" ELSE "Greater"
      [] a.type = "nil" /\ b.type = "list" ->
            IF b.elements = <<>> THEN "Equal" ELSE "Less"
      [] a.type = "improper_list" /\ b.type = "improper_list" ->
            ThenWith(CompareTermLists(a.elements, b.elements), Cmp(a.tail, b.tail))
      [] a.type = "binary" /\ b.type = "binary" -> CmpSlice(a.bytes, b.bytes)
      [] a.type = "string" /\ b.type = "string" -> CmpStr(a.s, b.s)
      [] a.type = "binary" /\ b.type = "string" -> CmpSlice(a.bytes, AsBytes(b.s))
      [] a.type = "string" /\ b.type = "binary" -> CmpSlice(AsBytes(a.s), b.bytes)
      [] a.type = "bit_binary" /\ b.type = "bit_binary" ->
            ThenWith(CmpSlice(a.bytes, b.bytes), CmpInt(a.bits, b.bits))
      [] OTHER -> "Equal"

\* impl Ord for OwnedTerm: the early returns for two terms of one variant,
\* then the rank, then the arm of the pair.
Cmp(a, b) ==
    IF a.type = b.type /\ a.type = "integer" THEN CmpI64(a.w, b.w)
    ELSE IF a.type = b.type /\ a.type = "atom" THEN CmpStr(a.name, b.name)
    ELSE IF a.type = b.type /\ a.type = "binary" THEN CmpSlice(a.bytes, b.bytes)
    ELSE IF a.type = b.type /\ a.type = "string" THEN CmpStr(a.s, b.s)
    ELSE IF a.type = b.type /\ a.type = "nil" THEN "Equal"
    ELSE IF TypeOrder(a) # TypeOrder(b) THEN CmpInt(TypeOrder(a), TypeOrder(b))
    ELSE CmpSameOrder(a, b)

\* ---------------------------------------------- erltf: pids as strings
\* A u32 is its four bytes, least significant first; a string is the
\* sequence of its characters.
U32(v) == [k \in 1..4 |-> (v \div (256 ^ (k - 1))) % 256]
U32Max == [k \in 1..4 |-> 255]
DigitChars == <<"0", "1", "2", "3", "4", "5", "6", "7", "8", "9">>
IsDigit(ch) == \E k \in 1..10 : DigitChars[k] = ch
DigitValue(ch) == (CHOOSE k \in 1..10 : DigitChars[k] = ch) - 1

\* One step of writing a number in decimal: the bytes, most significant
\* first, divided by ten.
RECURSIVE DivTen(_, _)
DivTen(be, rem) ==
    IF be = <<>> THEN [q |-> <<>>, r |-> rem]
    ELSE LET cur == rem * 256 + Head(be)
             rest == DivTen(Tail(be), cur % 10)
         IN [q |-> <<cur \div 10>> \o rest.q, r |-> rest.r]

\* Display of u32: the decimal digits, no sign, no leading zero.
RECURSIVE Decimal(_)
Decimal(w) ==
    LET d == DivTen(Rev(w), 0)
    IN IF \A k \in 1..Len(d.q) : d.q[k] = 0
       THEN <<DigitChars[d.r + 1]>>
       ELSE Decimal(Rev(d.q)) \o <<DigitChars[d.r + 1]>>

\* ExternalPid::to_erl_pid_string in the place of Display.
DisplayErl(pid) ==
    <<"<", "0", ".">> \o Decimal(pid.id) \o <<".">> \o Decimal(pid.serial) \o <<">">>

\* impl Display for ExternalPid
Display(pid) ==
    <<"<">> \o Decimal(pid.id) \o <<".">> \o Decimal(pid.serial) \o <<".">>
        \o Decimal(pid.creation) \o <<">">>

\* checked_mul(10) and checked_add(digit) on a u32: None on overflow.
RECURSIVE MulAdd(_, _)
MulAdd(w, carry) ==
    IF w = <<>> THEN [w |-> <<>>, carry |-> carry]
    ELSE LET cur == Head(w) * 10 + carry
             rest == MulAdd(Tail(w), cur \div 256)
         IN [w |-> <<cur % 256>> \o rest.w, carry |-> rest.carry]

RECURSIVE ParseDigits(_, _)
ParseDigits(s, acc) ==
    IF s = <<>> THEN Some(acc)
    ELSE IF ~IsDigit(Head(s)) THEN NoneV
    ELSE LET n == MulAdd(acc, DigitValue(Head(s)))
         IN IF n.carry > 0 THEN NoneV ELSE ParseDigits(Tail(s), n.w)

\* str::parse::<u32>: an optional '+', then at least one digit.
ParseU32(s) ==
    LET digits == IF s # <<>> /\ Head(s) = "+" THEN Tail(s) ELSE s
    IN IF digits = <<>> THEN NoneV ELSE ParseDigits(digits, U32(0))

\* str::trim
RECURSIVE TrimStart(_)
TrimStart(s) == IF s # <<>> /\ Head(s) = " " THEN TrimStart(Tail(s)) ELSE s
Trim(s) == Rev(TrimStart(Rev(TrimStart(s))))

\* str::split('.')
RECURSIVE Split(_, _)
Split(s, cur) ==
    IF s = <<>> THEN <<cur>>
    ELSE IF Head(s) = "." THEN <<cur>> \o Split(Tail(s), <<>>)
    ELSE Split(Tail(s), Append(cur, Head(s)))

\* ExternalPid::from_string
FromString(node, pid_str) ==
    LET trimmed == Trim(pid_str)
        inner == SubSeq(trimmed, 2, Len(trimmed) - 1)
        parts == Split(inner, <<>>)
    IN IF trimmed = <<>> \/ Head(trimmed) # "<" \/ trimmed[Len(trimmed)] # ">"
       THEN [ok |-> FALSE]
       ELSE IF Len(parts) # 3 THEN [ok |-> FALSE]
       ELSE IF \E k \in 1..3 : ParseU32(parts[k]) = NoneV THEN [ok |-> FALSE]
       ELSE [ok |-> TRUE,
             pid |-> [node |-> node, id |-> Unwrap(ParseU32(parts[1])),
                      serial |-> Unwrap(ParseU32(parts[2])),
                      creation |-> Unwrap(ParseU32(parts[3]))]]

\* -------------------------------------------------- erltf: term codec
\* The external term format for integers, big integers, atoms, binaries,
\* strings, tuples, lists and maps.
Take(s, n) == SubSeq(s, 1, n)
Drop(s, n) == SubSeq(s, n + 1, Len(s))
\* Lengths and arities, big-endian; those of the model fit two bytes.
U16BE(n) == <<n \div 256, n % 256>>
U32BE(n) == <<0, 0>> \o U16BE(n)
BE(b) == IF Len(b) = 2 THEN b[1] * 256 + b[2] ELSE b[3] * 256 + b[4]
\* The strings whose bytes AsBytes knows, read back from bytes.
KnownStrings == {"ok", "error", "rex", "a@h", "b@h", ""}
IsKnown(b) == \E s \in KnownStrings : AsBytes(s) = b
FromBytes(b) == CHOOSE s \in KnownStrings : AsBytes(s) = b

\* The magnitude of an i64 without zero bytes at the top.
RECURSIVE StripZeros(_)
StripZeros(d) ==
    IF d # <<>> /\ d[Len(d)] = 0 THEN StripZeros(Take(d, Len(d) - 1)) ELSE d
FitsU8(w) == \A k \in 2..8 : w[k] = 0
FitsI32(w) ==
    \/ (\A k \in 5..8 : w[k] = 0) /\ w[4] < 128
    \/ (\A k \in 5..8 : w[k] = 255) /\ w[4] >= 128

\* An encoder that writes every integer above 255 in the 32-bit form.
EncodeIntegerNarrow(w) ==
    IF FitsU8(w) THEN <<97, w[1]>>
    ELSE <<98, w[4], w[3], w[2], w[1]>>

\* Integers: the narrowest of small integer, 32-bit integer, small big.
EncodeInteger(w) ==
    IF FitsU8(w) THEN <<97, w[1]>>
    ELSE IF FitsI32(w) THEN <<98, w[4], w[3], w[2], w[1]>>
    ELSE LET mag == StripZeros(IF IsNegativeI64(w) THEN WrappingNeg(w) ELSE w)
         IN <<110, Len(mag), IF IsNegativeI64(w) THEN 1 ELSE 0>> \o mag

RECURSIVE EncodeTerm(_)
RECURSIVE EncodeTerms(_)
RECURSIVE EncodeEntries(_)
EncodeTerms(es) == IF es = <<>> THEN <<>> ELSE EncodeTerm(Head(es)) \o EncodeTerms(Tail(es))
EncodeEntries(es) ==
    IF es = <<>> THEN <<>>
    ELSE EncodeTerm(Head(es)[1]) \o EncodeTerm(Head(es)[2]) \o EncodeEntries(Tail(es))
EncodeTerm(t) ==
    CASE t.type = "integer" -> EncodeInteger(t.w)
      [] t.type = "bigint" ->
            <<110, Len(t.digits), IF t.negative THEN 1 ELSE 0>> \o t.digits
      [] t.type = "atom" -> <<119, Len(AsBytes(t.name))>> \o AsBytes(t.name)
      [] t.type = "binary" -> <<109>> \o U32BE(Len(t.bytes)) \o t.bytes
      [] t.type = "string" -> <<107>> \o U16BE(Len(AsBytes(t.s))) \o AsBytes(t.s)
      [] t.type = "tuple" -> <<104, Len(t.elements)>> \o EncodeTerms(t.elements)
      [] t.type = "nil" -> <<106>>
      [] t.type = "list" ->
            <<108>> \o U32BE(Len(t.elements)) \o EncodeTerms(t.elements) \o <<106>>
      [] t.type = "map" -> <<116>> \o U32BE(Len(t.entries)) \o EncodeEntries(t.entries)

\* encode: the version byte, then the term.
Encode(t) == <<131>> \o EncodeTerm(t)

\* BTreeMap::insert: the place of a key is found with cmp; an equal key keeps
\* its place and takes the new value.
RECURSIVE MapInsert(_, _, _)
MapInsert(entries, k, v) ==
    IF entries = <<>> THEN <<<<k, v>>>>
    ELSE LET o == Cmp(k, Head(entries)[1])
         IN IF o = "Equal" THEN <<<<Head(entries)[1], v>>>> \o Tail(entries)
            ELSE IF o = "Less" THEN <<<<k, v>>>> \o entries
            ELSE <<Head(entries)>> \o MapInsert(Tail(entries), k, v)
RECURSIVE MapCollect(_, _)
MapCollect(entries, terms) ==
    IF terms = <<>> THEN entries
    ELSE MapCollect(MapInsert(entries, terms[1], terms[2]), Drop(terms, 2))

\* A big integer that fits i64 is an Integer, any other a BigInt.
DecodeBig(negative, digits) ==
    LET mag == StripZeros(digits)
        w == [k \in 1..8 |-> IF k <= Len(mag) THEN mag[k] ELSE 0]
    IN IF Len(mag) <= 8 /\ (w[8] < 128 \/ (negative /\ w = I64Min))
       THEN Integer(IF negative THEN WrappingNeg(w) ELSE w)
       ELSE BigIntTerm(negative, digits)

\* The 32-bit form, sign-extended.
DecodeI32(b) ==
    Integer([k \in 1..8 |-> IF k <= 4 THEN b[5 - k] ELSE IF b[1] >= 128 THEN 255 ELSE 0])

DecodeFailed == [ok |-> FALSE]
Decoded(t, rest) == [ok |-> TRUE, term |-> t, rest |-> rest]

RECURSIVE DecodeTerm(_)
RECURSIVE DecodeTerms(_, _)
\* n terms in a row.
DecodeTerms(b, n) ==
    IF n = 0 THEN [ok |-> TRUE, terms |-> <<>>, rest |-> b]
    ELSE LET first == DecodeTerm(b)
         IN IF ~first.ok THEN DecodeFailed
            ELSE LET more == DecodeTerms(first.rest, n - 1)
                 IN IF ~more.ok THEN DecodeFailed
                    ELSE [ok |-> TRUE, terms |-> <<first.term>> \o more.terms,
                          rest |-> more.rest]
DecodeTerm(b) ==
    IF b = <<>> THEN DecodeFailed
    ELSE LET tag == Head(b)
             p == Tail(b)
         IN CASE tag = 97 ->
                   IF Len(p) < 1 THEN DecodeFailed
                   ELSE Decoded(Integer(I64(p[1])), Drop(p, 1))
              [] tag = 98 ->
                   IF Len(p) < 4 THEN DecodeFailed
                   ELSE Decoded(DecodeI32(Take(p, 4)), Drop(p, 4))
              [] tag = 110 ->
                   IF Len(p) < 2 THEN DecodeFailed
                   ELSE IF Len(p) < 2 + p[1] THEN DecodeFailed
                   ELSE Decoded(DecodeBig(p[2] # 0, SubSeq(p, 3, 2 + p[1])),
                                Drop(p, 2 + p[1]))
              [] tag = 119 ->
                   IF Len(p) < 1 THEN DecodeFailed
                   ELSE IF Len(p) < 1 + p[1] THEN DecodeFailed
                   ELSE IF ~IsKnown(SubSeq(p, 2, 1 + p[1])) THEN DecodeFailed
                   ELSE Decoded(AtomTerm(FromBytes(SubSeq(p, 2, 1 + p[1]))),
                                Drop(p, 1 + p[1]))
              [] tag = 109 ->
                   IF Len(p) < 4 THEN DecodeFailed
                   ELSE IF Len(p) < 4 + BE(Take(p, 4)) THEN DecodeFailed
                   ELSE Decoded(BinaryTerm(SubSeq(p, 5, 4 + BE(Take(p, 4)))),
                                Drop(p, 4 + BE(Take(p, 4))))
              [] tag = 107 ->
                   IF Len(p) < 2 THEN DecodeFailed
                   ELSE IF Len(p) < 2 + BE(Take(p, 2)) THEN DecodeFailed
                   ELSE IF ~IsKnown(SubSeq(p, 3, 2 + BE(Take(p, 2)))) THEN DecodeFailed
                   ELSE Decoded(StringTerm(FromBytes(SubSeq(p, 3, 2 + BE(Take(p, 2))))),
                                Drop(p, 2 + BE(Take(p, 2))))
              [] tag = 104 ->
                   IF Len(p) < 1 THEN DecodeFailed
                   ELSE LET r == DecodeTerms(Tail(p), p[1])
                        IN IF ~r.ok THEN DecodeFailed
                           ELSE Decoded(TupleTerm(r.terms), r.rest)
              [] tag = 106 -> Decoded(NilTerm, p)
              [] tag = 108 ->
                   IF Len(p) < 4 THEN DecodeFailed
                   ELSE LET r == DecodeTerms(Drop(p, 4), BE(Take(p, 4)))
                        IN IF ~r.ok THEN DecodeFailed
                           ELSE LET tail == DecodeTerm(r.rest)
                                IN IF ~tail.ok THEN DecodeFailed
                                   ELSE IF tail.term = NilTerm
                                   THEN Decoded(ListTerm(r.terms), tail.rest)
                                   ELSE Decoded(ImproperListTerm(r.terms, tail.term),
                                                tail.rest)
              [] tag = 116 ->
                   IF Len(p) < 4 THEN DecodeFailed
                   ELSE LET r == DecodeTerms(Drop(p, 4), 2 * BE(Take(p, 4)))
                        IN IF ~r.ok THEN DecodeFailed
                           ELSE Decoded(MapTerm(MapCollect(<<>>, r.terms)), r.rest)
              [] OTHER -> DecodeFailed

\* decode: the version byte, then one term.
Decode(b) ==
    IF b = <<>> THEN DecodeFailed
    ELSE IF Head(b) # 131 THEN DecodeFailed
    ELSE DecodeTerm(Tail(b))

\* ------------------------------------------------- erltf: AtomCache
\* 256 slots indexed by a byte, each empty or holding an atom.
CacheSlots == 0..255
\* AtomCache::new
CacheNew == [i \in CacheSlots |-> NoneV]
\* An insert that leaves an occupied slot as it is.
CacheInsertIfAbsent(slots, index, atom) ==
    IF slots[index] = NoneV THEN [slots EXCEPT ![index] = Some(atom)] ELSE slots
\* AtomCache::insert
CacheInsert(slots, index, atom) == [slots EXCEPT ![index] = Some(atom)]
\* AtomCache::get
CacheGet(slots, index) == slots[index]
\* AtomCache::len
CacheLen(slots) == Cardinality({i \in CacheSlots : slots[i] # NoneV})

\* OwnedTerm::is_atom_with_name
IsAtomWithName(term, n) == term.type = "atom" /\ term.name = n

\* An unwrapping that takes the second element of every 2-tuple.
IntoRexResponseAnyPair(term) ==
    IF term.type = "tuple" /\ Len(term.elements) = 2
    THEN [ok |-> TRUE, val |-> term.elements[2]]
    ELSE [ok |-> FALSE, val |-> term]

\* OwnedTerm::into_rex_response: Ok(second element) for {rex, Result},
\* TermConversionError::WrongType for everything else.
IntoRexResponse(term) ==
    IF term.type = "tuple" /\ Len(term.elements) = 2
    THEN IF IsAtomWithName(term.elements[1], "rex")
         THEN [ok |-> TRUE, val |-> term.elements[2]]
         ELSE [ok |-> FALSE, val |-> term]
    ELSE [ok |-> FALSE, val |-> term]

\* Node::rpc_call: the call was made through the wrapper, which passes the
\* errors of rpc_call_raw on (`?`) and unwraps its reply.
RpcCallReturn(t) ==
    /\ pc[t] = "rpc_wait" /\ CanRun(t)
    /\ chan[loc[t].chan].st \in {"value", "closed"}
    /\ pc' = [pc EXCEPT ![t] = "idle"]
    /\ loc' = [loc EXCEPT ![t] = NoLoc]
    /\ ret' = IF chan[loc[t].chan].st = "value"
              THEN LET r == IntoRexResponse(Unwrap(chan[loc[t].chan].val).term) IN
                   IF r.ok
                   THEN [Result(t, "rpc_call_rex", "Ok") EXCEPT !.val = Some(r.val)]
                   ELSE Result(t, "rpc_call_rex", "TermConversion")
              ELSE Result(t, "rpc_call_rex", "RpcCancelled")
    /\ UNCHANGED <<nodeVars, allocVars, reference_counter, regVars, connVars,
                   wireVars, recvVars, rpcVars, ops>>

\* The caller drops the rpc_call_raw future while it awaits the reply: the
\* receiving half goes with it, nothing after the await runs.
RpcCancel(t) ==
    /\ pc[t] = "rpc_wait"
    /\ chan' = [chan EXCEPT ![loc[t].chan].st =
                    IF @ = "open" THEN "rx_dropped" ELSE @]
    /\ pc' = [pc EXCEPT ![t] = "idle"]
    /\ loc' = [loc EXCEPT ![t] = NoLoc]
    /\ ret' = Result(t, "rpc_call", "Dropped")
    /\ UNCHANGED <<nodeVars, allocVars, reference_counter, regVars, connVars,
                   wireVars, recvVars, pending_rpcs, ops>>

\* ------------------------------------------------- Node::link, Node::unlink
\* handle.add_link / handle.remove_link on a pid that has a handle.
AddLink(ls, a, b) == IF a \in DOMAIN ls THEN [ls EXCEPT ![a] = @ \cup {b}] ELSE ls
RemoveLink(ls, a, b) == IF a \in DOMAIN ls THEN [ls EXCEPT ![a] = @ \ {b}] ELSE ls

\* An unlink that removes the local edge only when the peer can be told.
LinkBeginWhenConnected(t, op, from, to) ==
    /\ CanStart(t) /\ CanRun(t)
    /\ op \in {"link", "unlink"}
    /\ ops' = ops + 1
    /\ links' = IF op = "link" THEN AddLink(links, from, to)
                ELSE IF to.node # name /\ to.node \notin DOMAIN connections THEN links
                ELSE RemoveLink(links, from, to)
    /\ loc' = [loc EXCEPT ![t] = [NoLoc EXCEPT !.op = op, !.from = Some(from),
                                   !.to = Some(to), !.fid = ops + 1]]
    /\ pc' = [pc EXCEPT ![t] = "link_to"]
    /\ UNCHANGED <<nodeVars, allocVars, reference_counter, procs, mailbox, monitors,
                   names, connVars, wireVars, recvVars, rpcVars, ret>>

\* The caller's side of the edge: from_handle.add_link(to) / remove_link(to).
LinkBegin(t, op, from, to) ==
    /\ CanStart(t) /\ CanRun(t)
    /\ op \in {"link", "unlink"}
    /\ ops' = ops + 1
    /\ links' = IF op = "link" THEN AddLink(links, from, to) ELSE RemoveLink(links, from, to)
    /\ loc' = [loc EXCEPT ![t] = [NoLoc EXCEPT !.op = op, !.from = Some(from),
                                   !.to = Some(to), !.fid = ops + 1]]
    /\ pc' = [pc EXCEPT ![t] = "link_to"]
    /\ UNCHANGED <<nodeVars, allocVars, reference_counter, procs, mailbox, monitors,
                   names, connVars, wireVars, recvVars, rpcVars, ret>>

\* The other side: the local handle of `to`, or a Link / UnlinkId control
\* message on the connection to its node (unlink draws the id first).
LinkTo(t) ==
    /\ pc[t] = "link_to" /\ CanRun(t)
    /\ LET from == Unwrap(loc[t].from)
           to == Unwrap(loc[t].to) IN
       IF to.node = name
       THEN /\ links' = IF loc[t].op = "link" THEN AddLink(links, to, from)
                        ELSE RemoveLink(links, to, from)
            /\ Return(t, "Ok")
            /\ UNCHANGED reference_counter
       ELSE /\ UNCHANGED links
            /\ IF to.node \in DOMAIN connections
               THEN /\ reference_counter' = IF loc[t].op = "unlink"
                                            THEN FetchAdd.next ELSE reference_counter
                    /\ loc' = [loc EXCEPT ![t].peer = Some(to.node),
                                          ![t].conn = connections[to.node],
                                          ![t].ref = IF loc[t].op = "unlink"
                                                     THEN Some(FetchAdd.val) ELSE NoneV]
                    /\ pc' = [pc EXCEPT ![t] = "lock"]
                    /\ UNCHANGED ret
               ELSE /\ Return(t, "NodeNotConnected")
                    /\ UNCHANGED reference_counter
    /\ UNCHANGED <<nodeVars, allocVars, procs, mailbox, monitors, names, connVars,
                   wireVars, recvVars, rpcVars, ops>>

\* ------------------------------------------- Node::monitor, Node::demonitor
\* make_reference: three fetch_add(1) on the reference counter, one per word.
MonitorBegin(t, from, to) ==
    /\ CanStart(t) /\ CanRun(t)
    /\ ops' = ops + 1
    /\ reference_counter' = FetchAdd.next
    /\ loc' = [loc EXCEPT ![t] = [NoLoc EXCEPT !.op = "monitor", !.from = Some(from),
                                   !.to = Some(to), !.fid = ops + 1,
                                   !.ref = <<FetchAdd.val>>]]
    /\ pc' = [pc EXCEPT ![t] = "make_ref"]
    /\ UNCHANGED <<nodeVars, allocVars, regVars, connVars, wireVars, recvVars,
                   rpcVars, ret>>

\* Node::make_reference called on its own.
MakeReferenceBegin(t) ==
    /\ CanStart(t) /\ CanRun(t)
    /\ ops' = ops + 1
    /\ reference_counter' = FetchAdd.next
    /\ loc' = [loc EXCEPT ![t] = [NoLoc EXCEPT !.op = "make_reference",
                                   !.fid = ops + 1, !.ref = <<FetchAdd.val>>]]
    /\ pc' = [pc EXCEPT ![t] = "make_ref"]
    /\ UNCHANGED <<nodeVars, allocVars, regVars, connVars, wireVars, recvVars,
                   rpcVars, ret>>

\* The second and the third fetch_add; the third completes the reference,
\* which make_reference returns to its caller or to monitor.
MakeReferenceWord(t) ==
    /\ pc[t] = "make_ref" /\ CanRun(t)
    /\ reference_counter' = FetchAdd.next
    /\ LET ids == Append(loc[t].ref, FetchAdd.val)
           r == [node |-> name, creation |-> creation, ids |-> ids] IN
        IF Len(ids) < 3
        THEN /\ loc' = [loc EXCEPT ![t].ref = ids]
             /\ UNCHANGED <<pc, ret>>
        ELSE IF loc[t].op = "make_reference"
        THEN /\ pc' = [pc EXCEPT ![t] = "idle"]
             /\ loc' = [loc EXCEPT ![t] = NoLoc]
             /\ ret' = [Result(t, "make_reference", "Ok") EXCEPT !.val = Some(r)]
        ELSE /\ loc' = [loc EXCEPT ![t].ref = Some(r)]
             /\ pc' = [pc EXCEPT ![t] = "monitor_to"]
             /\ UNCHANGED ret
    /\ UNCHANGED <<nodeVars, allocVars, regVars, connVars, wireVars, recvVars,
                   rpcVars, ops>>

AddMonitor(ms, a, from, r) ==
    IF a \in DOMAIN ms THEN [ms EXCEPT ![a] = @ \cup {<<from, r>>}] ELSE ms
RemoveMonitor(ms, a, r) ==
    IF a \in DOMAIN ms THEN [ms EXCEPT ![a] = {e \in @ : e[2] # r}] ELSE ms

\* The reference is recorded on the local target, or a Monitor control
\* message goes out on the connection to the target's node.
MonitorTo(t) ==
    /\ pc[t] = "monitor_to" /\ CanRun(t)
    /\ LET from == Unwrap(loc[t].from)
           to == Unwrap(loc[t].to) IN
       IF to.node = name
       THEN /\ monitors' = AddMonitor(monitors, to, from, Unwrap(loc[t].ref))
            /\ pc' = [pc EXCEPT ![t] = "idle"]
            /\ loc' = [loc EXCEPT ![t] = NoLoc]
            /\ ret' = [Result(t, "monitor", "Ok") EXCEPT !.val = loc[t].ref]
       ELSE /\ UNCHANGED monitors
            /\ IF to.node \in DOMAIN connections
               THEN /\ loc' = [loc EXCEPT ![t].peer = Some(to.node),
                                          ![t].conn = connections[to.node]]
                    /\ pc' = [pc EXCEPT ![t] = "lock"]
                    /\ UNCHANGED ret
               ELSE Return(t, "NodeNotConnected")
    /\ UNCHANGED <<nodeVars, allocVars, reference_counter, procs, mailbox, links,
                   names, connVars, wireVars, recvVars, rpcVars, ops>>

\* References a caller can hold: those recorded on local targets, the one
\* returned last, and one that names no monitor.
StaleRef == [node |-> name, creation |-> 1, ids |-> <<0, 0, 0>>]
KnownRefs ==
    {e[2] : e \in UNION {monitors[q] : q \in DOMAIN monitors}}
    \cup (IF ret.op = "monitor" /\ IsSome(ret.val) THEN {Unwrap(ret.val)} ELSE {})
    \cup {StaleRef}

Demonitor(t, from, to, r) ==
    /\ CanStart(t) /\ CanRun(t)
    /\ ops' = ops + 1
    /\ IF to.node = name
       THEN /\ monitors' = RemoveMonitor(monitors, to, r)
            /\ ret' = Result(t, "demonitor", "Ok")
            /\ UNCHANGED <<pc, loc>>
       ELSE /\ UNCHANGED monitors
            /\ IF to.node \in DOMAIN connections
               THEN /\ loc' = [loc EXCEPT ![t] = [NoLoc EXCEPT !.op = "demonitor",
                                   !.from = Some(from), !.to = Some(to),
                                   !.ref = Some(r), !.peer = Some(to.node),
                                   !.conn = connections[to.node], !.fid = ops + 1]]
                    /\ pc' = [pc EXCEPT ![t] = "lock"]
                    /\ UNCHANGED ret
               ELSE /\ ret' = Result(t, "demonitor", "NodeNotConnected")
                    /\ UNCHANGED <<pc, loc>>
    /\ UNCHANGED <<nodeVars, allocVars, reference_counter, procs, mailbox, links,
                   names, connVars, wireVars, recvVars, rpcVars>>

\* ------------------------------------------------------ process termination
\* The termination path of a local process (process.rs and registry.rs): its
\* links and then its monitors are taken one by one and each is notified;
\* when none is left the pid is removed from the registry.
Terminating(p) ==
    \E t \in Tasks : loc[t].op = "terminate" /\ loc[t].from = Some(p)

TerminateBegin(t, p, reason) ==
    /\ CanStart(t) /\ CanRun(t)
    /\ p \in procs /\ ~Terminating(p)
    /\ ops' = ops + 1
    /\ loc' = [loc EXCEPT ![t] = [NoLoc EXCEPT !.op = "terminate", !.from = Some(p),
                                   !.fid = ops + 1, !.reason = Some(reason)]]
    /\ pc' = [pc EXCEPT ![t] = "notify"]
    /\ UNCHANGED <<nodeVars, allocVars, reference_counter, regVars, connVars,
                   wireVars, recvVars, rpcVars, ret>>

\* A notification for q: into its mailbox when q is a process of this node
\* with a handle, across the connection to its node when q is remote and the
\* node is connected.
Notify(t, q, msg, r) ==
    IF q.node = name
    THEN /\ mailbox' = IF RegistryHas(q) THEN Enqueue(mailbox, q, msg) ELSE mailbox
         /\ UNCHANGED <<pc, loc>>
    ELSE /\ UNCHANGED mailbox
         /\ IF q.node \in DOMAIN connections
            THEN /\ loc' = [loc EXCEPT ![t].to = Some(q), ![t].peer = Some(q.node),
                                       ![t].conn = connections[q.node], ![t].ref = r]
                 /\ pc' = [pc EXCEPT ![t] = "lock"]
            ELSE UNCHANGED <<pc, loc>>

TerminateNotify(t) ==
    /\ pc[t] = "notify" /\ CanRun(t)
    /\ LET p == Unwrap(loc[t].from)
           reason == Unwrap(loc[t].reason)
           tag == [c |-> 0, n |-> loc[t].fid] IN
       \/ \E q \in links[p] :
            /\ links' = [links EXCEPT ![p] = @ \ {q}]
            /\ UNCHANGED monitors
            /\ Notify(t, q, [type |-> "Exit", from |-> p, reason |-> reason,
                             tag |-> tag], NoneV)
       \/ /\ links[p] = {}
          /\ \E e \in monitors[p] :
               /\ monitors' = [monitors EXCEPT ![p] = @ \ {e}]
               /\ UNCHANGED links
               /\ Notify(t, e[1], [type |-> "MonitorExit", monitored |-> p,
                                   reference |-> e[2], reason |-> reason,
                                   tag |-> tag], Some(e[2]))
    /\ UNCHANGED <<nodeVars, allocVars, reference_counter, procs, names, connVars,
                   wireVars, recvVars, rpcVars, ret, ops>>

\* A termination that removes the pid while notifications are still due.
TerminateRemoveEarly(t) ==
    /\ pc[t] = "notify" /\ CanRun(t)
    /\ LET p == Unwrap(loc[t].from) IN
        /\ procs' = procs \ {p}
        /\ mailbox' = Without(mailbox, p)
        /\ links' = Without(links, p)
        /\ monitors' = Without(monitors, p)
    /\ pc' = [pc EXCEPT ![t] = "idle"]
    /\ loc' = [loc EXCEPT ![t] = NoLoc]
    /\ ret' = Result(t, "terminate", "Ok")
    /\ UNCHANGED <<nodeVars, allocVars, reference_counter, names, connVars,
                   wireVars, recvVars, rpcVars, ops>>

\* registry.remove(pid), once every link and monitor was notified.
TerminateRemove(t) ==
    /\ pc[t] = "notify" /\ CanRun(t)
    /\ LET p == Unwrap(loc[t].from) IN
        /\ links[p] = {} /\ monitors[p] = {}
        /\ procs' = procs \ {p}
        /\ mailbox' = Without(mailbox, p)
        /\ links' = Without(links, p)
        /\ monitors' = Without(monitors, p)
    /\ pc' = [pc EXCEPT ![t] = "idle"]
    /\ loc' = [loc EXCEPT ![t] = NoLoc]
    /\ ret' = Result(t, "terminate", "Ok")
    /\ UNCHANGED <<nodeVars, allocVars, reference_counter, names, connVars,
                   wireVars, recvVars, rpcVars, ops>>

\* -------------------------------------------------------------------- Next
Next ==
    \/ \E t \in Tasks, reply \in StartInputs : Start(t, reply)
    \/ \E t \in Tasks, n \in RegNames, pid \in procs \cup RemotePids : Register(t, n, pid)
    \/ \E t \in Tasks, n \in RegNames : Unregister(t, n)
    \/ \E t \in Tasks : Spawn(t)
    \/ \E t \in Tasks, p \in Peers : ConnectBegin(t, p)
    \/ \E t \in Tasks, a \in HandshakeAnswers : ConnectHandshake(t, a)
    \/ \E t \in Tasks : ConnectInsert(t)
    \/ \E c \in Conns, f \in InboundFrames : PeerSend(c, f)
    \/ \E c \in Conns : PeerClose(c)
    \/ \E c \in Conns : RecvRead(c)
    \/ \E c \in Conns : RecvRoute(c)
    \/ \E c \in Conns : RecvFail(c)
    \/ \E c \in Conns : RecvRemove(c)
    \/ \E t \in Tasks, to \in LocalTargets \cup RemotePids : Send(t, to)
    \/ \E t \in Tasks, n \in RegNames : SendToName(t, n)
    \/ \E t \in Tasks : SendResolved(t)
    \/ \E t \in Tasks : Lock(t)
    \/ \E t \in Tasks : Write1(t)
    \/ \E t \in Tasks : Write2(t)
    \/ \E t \in Tasks : WriteFail(t)
    \/ \E t \in Tasks, p \in Peers : RpcBegin(t, p)
    \/ \E t \in Tasks : RpcLookup(t)
    \/ \E t \in Tasks : RpcTimeout(t)
    \/ \E t \in Tasks : RpcTimedOut(t)
    \/ \E t \in Tasks : RpcReturn(t)
    \/ \E t \in Tasks : RpcCallReturn(t)
    \/ \E t \in Tasks : RpcCancel(t)
    \/ \E t \in Tasks, op \in {"link", "unlink"}, from \in LocalTargets,
          to \in LocalTargets \cup RemotePids : LinkBegin(t, op, from, to)
    \/ \E t \in Tasks : LinkTo(t)
    \/ \E t \in Tasks, from \in LocalTargets, to \in LocalTargets \cup RemotePids :
          MonitorBegin(t, from, to)
    \/ \E t \in Tasks : MakeReferenceBegin(t)
    \/ \E t \in Tasks : MakeReferenceWord(t)
    \/ \E t \in Tasks : MonitorTo(t)
    \/ \E t \in Tasks, from \in LocalTargets, to \in LocalTargets \cup RemotePids,
          r \in KnownRefs : Demonitor(t, from, to, r)
    \/ \E t \in Tasks, p \in procs, reason \in {"normal", "kill"} :
          TerminateBegin(t, p, reason)
    \/ \E t \in Tasks : TerminateNotify(t)
    \/ \E t \in Tasks : TerminateRemove(t)

Spec == Init /\ [][Next]_vars

\* The registry side of the node: start, spawn, names, local sends.
NextNode ==
    \/ \E t \in Tasks, reply \in StartInputs : Start(t, reply)
    \/ \E t \in Tasks, n \in RegNames, pid \in procs \cup RemotePids : Register(t, n, pid)
    \/ \E t \in Tasks, n \in RegNames : Unregister(t, n)
    \/ \E t \in Tasks : Spawn(t)
    \/ \E t \in Tasks, to \in LocalTargets : Send(t, to)

SpecNode == Init /\ [][NextNode]_vars

\* A node whose name has a host part.
InitNamed == Init /\ name = GoodName

\* The node after start(0) was answered with creation 2 and two processes
\* were spawned; the count of operations starts again from there.
PidA == [node |-> GoodName, id |-> 0, serial |-> 0, creation |-> 2]
PidB == [node |-> GoodName, id |-> 1, serial |-> 0, creation |-> 2]

InitSpawned ==
    /\ name = GoodName
    /\ workers \in 1..MaxWorkers
    /\ started = TRUE
    /\ creation = 2
    /\ listen_port = Some(0)
    /\ epmd_calls = 1
    /\ next_id = 2
    /\ next_serial = 0
    /\ alloc_creation = 2
    /\ reference_counter = 0
    /\ procs = {PidA, PidB}
    /\ mailbox = [p \in {PidA, PidB} |-> <<>>]
    /\ links = [p \in {PidA, PidB} |-> {}]
    /\ monitors = [p \in {PidA, PidB} |-> {}]
    /\ names = {}
    /\ connections = <<>>
    /\ nconn = 0
    /\ conn_peer = [c \in Conns |-> NoneV]
    /\ conn_hs = [c \in Conns |-> "init"]
    /\ conn_mutex = [c \in Conns |-> None]
    /\ out = [c \in Conns |-> <<>>]
    /\ inq = [c \in Conns |-> <<>>]
    /\ nsent = [c \in Conns |-> 0]
    /\ open = [c \in Conns |-> FALSE]
    /\ rpc = [c \in Conns |-> "none"]
    /\ rcur = [c \in Conns |-> NoFrame]
    /\ pending_rpcs = <<>>
    /\ chan = <<>>
    /\ pc = [t \in Tasks |-> "idle"]
    /\ loc = [t \in Tasks |-> NoLoc]
    /\ ret = [Result("t1", "spawn", "Ok") EXCEPT !.val = Some(PidB)]
    /\ ops = 0

\* Connections and their receiver tasks, fed by a peer that sends every kind
\* of frame.
RecvFrames ==
    [kind : {"Send"}, to : procs]
    \cup [kind : {"Exit"}, from : {RemoteTarget}, to : procs, reason : {"normal"}]
    \cup [kind : {"MonitorPExit"}, from : {RemoteTarget}, to : procs,
          ref : {<<PeerName, 1>>}, reason : {"normal"}]
    \cup [kind : {"Other", "DecodeError"}]

NextRecv ==
    \/ \E t \in Tasks, reply \in StartInputs : Start(t, reply)
    \/ \E t \in Tasks : Spawn(t)
    \/ \E t \in Tasks, p \in Peers : ConnectBegin(t, p)
    \/ \E t \in Tasks, a \in HandshakeAnswers : ConnectHandshake(t, a)
    \/ \E t \in Tasks : ConnectInsert(t)
    \/ \E c \in Conns, f \in RecvFrames : PeerSend(c, f)
    \/ \E c \in Conns : PeerClose(c)
    \/ \E c \in Conns : RecvRead(c)
    \/ \E c \in Conns : RecvRoute(c)
    \/ \E c \in Conns : RecvFail(c)
    \/ \E c \in Conns : RecvRemove(c)

SpecRecv == InitNamed /\ [][NextRecv]_vars

\* Every operation that writes on a connection, against a peer that may close.
NextWrite ==
    \/ \E t \in Tasks, p \in Peers : ConnectBegin(t, p)
    \/ \E t \in Tasks, a \in HandshakeAnswers : ConnectHandshake(t, a)
    \/ \E t \in Tasks : ConnectInsert(t)
    \/ \E c \in Conns : PeerClose(c)
    \/ \E c \in Conns : RecvFail(c)
    \/ \E c \in Conns : RecvRemove(c)
    \/ \E t \in Tasks : Send(t, RemoteTarget)
    \/ \E t \in Tasks, op \in {"link", "unlink"} :
          LinkBegin(t, op, UnknownLocal, RemoteTarget)
    \/ \E t \in Tasks : LinkTo(t)
    \/ \E t \in Tasks : MonitorBegin(t, UnknownLocal, RemoteTarget)
    \/ \E t \in Tasks : MakeReferenceWord(t)
    \/ \E t \in Tasks : MonitorTo(t)
    \/ \E t \in Tasks, r \in KnownRefs : Demonitor(t, UnknownLocal, RemoteTarget, r)
    \/ \E t \in Tasks, p \in Peers : RpcBegin(t, p)
    \/ \E t \in Tasks : RpcLookup(t)
    \/ \E t \in Tasks : RpcTimeout(t)
    \/ \E t \in Tasks : RpcTimedOut(t)
    \/ \E t \in Tasks : Lock(t)
    \/ \E t \in Tasks : Write1(t)
    \/ \E t \in Tasks : Write2(t)
    \/ \E t \in Tasks : WriteFail(t)

SpecWrite == InitNamed /\ [][NextWrite]_vars

\* Links and unlinks of one spawned process with the other one and with a
\* process of the peer, over a connection the peer may close.
NextLink ==
    \/ \E t \in Tasks, p \in Peers : ConnectBegin(t, p)
    \/ \E t \in Tasks, a \in HandshakeAnswers : ConnectHandshake(t, a)
    \/ \E t \in Tasks : ConnectInsert(t)
    \/ \E c \in Conns : PeerClose(c)
    \/ \E c \in Conns : RecvFail(c)
    \/ \E c \in Conns : RecvRemove(c)
    \/ \E t \in Tasks, op \in {"link", "unlink"}, to \in {PidB, RemoteTarget} :
          LinkBegin(t, op, PidA, to)
    \/ \E t \in Tasks : LinkTo(t)
    \/ \E t \in Tasks : Lock(t)
    \/ \E t \in Tasks : Write1(t)
    \/ \E t \in Tasks : Write2(t)
    \/ \E t \in Tasks : WriteFail(t)

SpecLink == InitSpawned /\ [][NextLink]_vars

\* What the peer sends about its process after a link: an exit signal for the
\* local process, or the acknowledgement of an unlink.
UnlinkFrames ==
    [kind : {"Exit"}, from : {RemoteTarget}, to : {PidA}, reason : {"normal"}]
    \cup [kind : {"UnlinkIdAck"}, id : {0}, from : {RemoteTarget}, to : {PidA}]

\* A spawned process links to and unlinks from a process of the peer while
\* the peer sends exit signals and acknowledgements.
NextUnlink ==
    \/ \E t \in Tasks, p \in Peers : ConnectBegin(t, p)
    \/ \E t \in Tasks, a \in HandshakeAnswers : ConnectHandshake(t, a)
    \/ \E t \in Tasks : ConnectInsert(t)
    \/ \E c \in Conns, f \in UnlinkFrames : PeerSend(c, f)
    \/ \E c \in Conns : RecvRead(c)
    \/ \E c \in Conns : RecvRoute(c)
    \/ \E c \in Conns : RecvFail(c)
    \/ \E c \in Conns : RecvRemove(c)
    \/ \E t \in Tasks, op \in {"link", "unlink"} : LinkBegin(t, op, PidA, RemoteTarget)
    \/ \E t \in Tasks : LinkTo(t)
    \/ \E t \in Tasks : Lock(t)
    \/ \E t \in Tasks : Write1(t)
    \/ \E t \in Tasks : Write2(t)
    \/ \E t \in Tasks : WriteFail(t)

SpecUnlink == InitSpawned /\ [][NextUnlink]_vars

\* The peer unlinks its process from a local one: UnlinkId, or a frame of
\* another kind.
UnlinkIdFrames ==
    [kind : {"UnlinkId"}, id : {1, 2}, from : {RemoteTarget}, to : {PidA}]
    \cup [kind : {"Other"}]

\* Connections whose peer sends UnlinkId.
NextAck ==
    \/ \E t \in Tasks, p \in Peers : ConnectBegin(t, p)
    \/ \E t \in Tasks, a \in HandshakeAnswers : ConnectHandshake(t, a)
    \/ \E t \in Tasks : ConnectInsert(t)
    \/ \E c \in Conns, f \in UnlinkIdFrames : PeerSend(c, f)
    \/ \E c \in Conns : RecvRead(c)
    \/ \E c \in Conns : RecvRoute(c)
    \/ \E c \in Conns : RecvFail(c)
    \/ \E c \in Conns : RecvRemove(c)

\* The steps of the callers and receiver tasks that are running: the runtime
\* polls every ready task.
RunAck ==
    \/ \E t \in Tasks, a \in HandshakeAnswers : ConnectHandshake(t, a)
    \/ \E t \in Tasks : ConnectInsert(t)
    \/ \E c \in Conns : RecvRead(c)
    \/ \E c \in Conns : RecvRoute(c)
    \/ \E c \in Conns : RecvFail(c)
    \/ \E c \in Conns : RecvRemove(c)

FairAck == InitSpawned /\ [][NextAck]_vars /\ WF_vars(RunAck)

\* Exit signals and monitor exits from a process of the peer, addressed to
\* the spawned processes or to a pid without a handle.
ExitFrames ==
    [kind : {"Exit"}, from : {RemoteTarget}, to : procs \cup {UnknownLocal},
     reason : {"kill"}]
    \cup [kind : {"MonitorPExit"}, from : {RemoteTarget}, to : procs \cup {UnknownLocal},
          ref : {<<PeerName, 1>>}, reason : {"normal"}]

\* Connections made by one task, whose peer reports exits.
NextExit ==
    \/ \E p \in Peers : ConnectBegin("t1", p)
    \/ \E a \in HandshakeAnswers : ConnectHandshake("t1", a)
    \/ ConnectInsert("t1")
    \/ \E c \in Conns, f \in ExitFrames : PeerSend(c, f)
    \/ \E c \in Conns : RecvRead(c)
    \/ \E c \in Conns : RecvRoute(c)
    \/ \E c \in Conns : RecvFail(c)
    \/ \E c \in Conns : RecvRemove(c)

SpecExit == InitSpawned /\ [][NextExit]_vars

\* The node after monitor(PidA, PidB) returned the reference of the words
\* 0, 1, 2 and make_reference was called 1431655764 more times, one call after
\* the other: 4294967295 words were taken, the counter holds 0xFFFFFFFF and
\* the last reference returned has the words 0xFFFFFFFC..0xFFFFFFFE.
FirstRef == [node |-> GoodName, creation |-> 2, ids |-> <<0, 1, 2>>]
LastRef == [node |-> GoodName, creation |-> 2, ids |-> <<-4, -3, -2>>]

InitWrapping ==
    /\ name = GoodName
    /\ workers \in 1..MaxWorkers
    /\ started = TRUE
    /\ creation = 2
    /\ listen_port = Some(0)
    /\ epmd_calls = 1
    /\ next_id = 2
    /\ next_serial = 0
    /\ alloc_creation = 2
    /\ reference_counter = -1
    /\ procs = {PidA, PidB}
    /\ mailbox = [p \in {PidA, PidB} |-> <<>>]
    /\ links = [p \in {PidA, PidB} |-> {}]
    /\ monitors = [p \in {PidA, PidB} |-> IF p = PidB THEN {<<PidA, FirstRef>>} ELSE {}]
    /\ names = {}
    /\ connections = <<>>
    /\ nconn = 0
    /\ conn_peer = [c \in Conns |-> NoneV]
    /\ conn_hs = [c \in Conns |-> "init"]
    /\ conn_mutex = [c \in Conns |-> None]
    /\ out = [c \in Conns |-> <<>>]
    /\ inq = [c \in Conns |-> <<>>]
    /\ nsent = [c \in Conns |-> 0]
    /\ open = [c \in Conns |-> FALSE]
    /\ rpc = [c \in Conns |-> "none"]
    /\ rcur = [c \in Conns |-> NoFrame]
    /\ pending_rpcs = <<>>
    /\ chan = <<>>
    /\ pc = [t \in Tasks |-> "idle"]
    /\ loc = [t \in Tasks |-> NoLoc]
    /\ ret = [Result("t1", "make_reference", "Ok") EXCEPT !.val = Some(LastRef)]
    /\ ops = 0

\* References made for local monitors and on their own, and monitors removed.
NextRef ==
    \/ \E t \in Tasks, from \in procs, to \in procs : MonitorBegin(t, from, to)
    \/ \E t \in Tasks : MakeReferenceBegin(t)
    \/ \E t \in Tasks : MakeReferenceWord(t)
    \/ \E t \in Tasks : MonitorTo(t)
    \/ \E t \in Tasks, from \in procs, to \in procs, r \in KnownRefs :
          Demonitor(t, from, to, r)

SpecRef == InitWrapping /\ [][NextRef]_vars

\* Sends by pid and by name, to local and remote targets, while connections
\* come and go and names are registered and unregistered.
NextSend ==
    \/ \E t \in Tasks, p \in Peers : ConnectBegin(t, p)
    \/ \E t \in Tasks, a \in HandshakeAnswers : ConnectHandshake(t, a)
    \/ \E t \in Tasks : ConnectInsert(t)
    \/ \E c \in Conns : RecvFail(c)
    \/ \E c \in Conns : RecvRemove(c)
    \/ \E t \in Tasks, n \in RegNames, pid \in {PidA, RemoteTarget} : Register(t, n, pid)
    \/ \E t \in Tasks, n \in RegNames : Unregister(t, n)
    \/ \E t \in Tasks, to \in LocalTargets \cup {RemoteTarget} : Send(t, to)
    \/ \E t \in Tasks, n \in RegNames : SendToName(t, n)
    \/ \E t \in Tasks : SendResolved(t)
    \/ \E t \in Tasks : Lock(t)
    \/ \E t \in Tasks : Write1(t)
    \/ \E t \in Tasks : Write2(t)
    \/ \E t \in Tasks : WriteFail(t)

SpecSend == InitSpawned /\ [][NextSend]_vars

\* A peer whose frames are messages for the first process or fail to decode.
DecodeFrames == [kind : {"Send"}, to : {PidA}] \cup [kind : {"DecodeError"}]

NextDecode ==
    \/ \E t \in Tasks, p \in Peers : ConnectBegin(t, p)
    \/ \E t \in Tasks, a \in HandshakeAnswers : ConnectHandshake(t, a)
    \/ \E t \in Tasks : ConnectInsert(t)
    \/ \E c \in Conns, f \in DecodeFrames : PeerSend(c, f)
    \/ \E c \in Conns : RecvRead(c)
    \/ \E c \in Conns : RecvRoute(c)
    \/ \E c \in Conns : RecvFail(c)
    \/ \E c \in Conns : RecvRemove(c)

SpecDecode == InitSpawned /\ [][NextDecode]_vars

\* Sends to a process of the peer over a connection whose writes can fail
\* and whose peer may close.
NextFailing ==
    \/ \E t \in Tasks, p \in Peers : ConnectBegin(t, p)
    \/ \E t \in Tasks, a \in HandshakeAnswers : ConnectHandshake(t, a)
    \/ \E t \in Tasks : ConnectInsert(t)
    \/ \E c \in Conns : PeerClose(c)
    \/ \E c \in Conns : RecvFail(c)
    \/ \E c \in Conns : RecvRemove(c)
    \/ \E t \in Tasks : Send(t, RemoteTarget)
    \/ \E t \in Tasks : Lock(t)
    \/ \E t \in Tasks : Write1(t)
    \/ \E t \in Tasks : Write2(t)
    \/ \E t \in Tasks : WriteFail(t)

\* The steps of tasks that are already running, and of a receiver whose
\* stream has ended: the runtime polls every ready task and a closed socket
\* reports its end.  Nothing obliges a caller to start an operation, the peer
\* to close, or a peer that keeps its socket open to stay silent for the
\* whole receive timeout.
RunFailing ==
    \/ \E t \in Tasks, a \in HandshakeAnswers : ConnectHandshake(t, a)
    \/ \E t \in Tasks : ConnectInsert(t)
    \/ \E c \in Conns : ~open[c] /\ RecvFail(c)
    \/ \E c \in Conns : RecvRemove(c)
    \/ \E t \in Tasks : Lock(t)
    \/ \E t \in Tasks : Write1(t)
    \/ \E t \in Tasks : Write2(t)
    \/ \E t \in Tasks : WriteFail(t)

FairFailing == InitSpawned /\ [][NextFailing]_vars /\ WF_vars(RunFailing)

\* Replies to the waiting calls, of every shape: {rex, Result}, pairs that
\* start with something else, tuples of other sizes, and terms that are no
\* tuple.
RexTerms ==
    {TupleTerm(<<AtomTerm("rex"), AtomTerm("ok")>>),
     TupleTerm(<<AtomTerm("rex"), TupleTerm(<<AtomTerm("rex"), IntTerm(1)>>)>>),
     TupleTerm(<<AtomTerm("ok"), IntTerm(1)>>),
     TupleTerm(<<IntTerm(1), AtomTerm("rex")>>),
     TupleTerm(<<AtomTerm("rex")>>),
     TupleTerm(<<AtomTerm("rex"), IntTerm(1), IntTerm(2)>>),
     TupleTerm(<<>>),
     AtomTerm("rex"),
     IntTerm(1)}
RexFrames == [kind : {"Send"}, to : ReplyPids, term : RexTerms]

\* RPCs made directly and through the wrapper, against a peer that answers.
NextRex ==
    \/ \E p \in Peers : ConnectBegin("t1", p)
    \/ \E a \in HandshakeAnswers : ConnectHandshake("t1", a)
    \/ ConnectInsert("t1")
    \/ \E c \in Conns, f \in RexFrames : PeerSend(c, f)
    \/ \E c \in Conns : RecvRead(c)
    \/ \E c \in Conns : RecvRoute(c)
    \/ \E t \in Tasks : Lock(t)
    \/ \E t \in Tasks : Write1(t)
    \/ \E t \in Tasks : Write2(t)
    \/ \E t \in Tasks, p \in Peers : RpcBegin(t, p)
    \/ \E t \in Tasks : RpcLookup(t)
    \/ \E t \in Tasks : RpcReturn(t)
    \/ \E t \in Tasks : RpcCallReturn(t)

SpecRex == InitNamed /\ [][NextRex]_vars

\* The first process is linked with the second one and with a process of
\* the peer, is monitored by the second one, and terminates.
NextTerm ==
    \/ \E p \in Peers : ConnectBegin("t1", p)
    \/ \E a \in HandshakeAnswers : ConnectHandshake("t1", a)
    \/ ConnectInsert("t1")
    \/ \E t \in Tasks, to \in {PidB, RemoteTarget} : LinkBegin(t, "link", PidA, to)
    \/ \E t \in Tasks : LinkTo(t)
    \/ \E t \in Tasks : MonitorBegin(t, PidB, PidA)
    \/ \E t \in Tasks : MakeReferenceWord(t)
    \/ \E t \in Tasks : MonitorTo(t)
    \/ \E t \in Tasks : Lock(t)
    \/ \E t \in Tasks : Write1(t)
    \/ \E t \in Tasks : Write2(t)
    \/ \E t \in Tasks : WriteFail(t)
    \/ \E t \in Tasks, reason \in {"normal", "kill"} : TerminateBegin(t, PidA, reason)
    \/ \E t \in Tasks : TerminateNotify(t)
    \/ \E t \in Tasks : TerminateRemove(t)

SpecTerm == InitSpawned /\ [][NextTerm]_vars

\* The functions of erltf are applied to inputs drawn before the node has
\* started: `ret` holds the input, then the function and what it returned.
Inputs(S) ==
    /\ name = GoodName
    /\ workers = 1
    /\ started = FALSE
    /\ creation = 1
    /\ listen_port = NoneV
    /\ epmd_calls = 0
    /\ next_id = 0
    /\ next_serial = 0
    /\ alloc_creation = 1
    /\ reference_counter = 0
    /\ procs = {}
    /\ mailbox = <<>>
    /\ links = <<>>
    /\ monitors = <<>>
    /\ names = {}
    /\ connections = <<>>
    /\ nconn = 0
    /\ conn_peer = [c \in Conns |-> NoneV]
    /\ conn_hs = [c \in Conns |-> "init"]
    /\ conn_mutex = [c \in Conns |-> None]
    /\ out = [c \in Conns |-> <<>>]
    /\ inq = [c \in Conns |-> <<>>]
    /\ nsent = [c \in Conns |-> 0]
    /\ open = [c \in Conns |-> FALSE]
    /\ rpc = [c \in Conns |-> "none"]
    /\ rcur = [c \in Conns |-> NoFrame]
    /\ pending_rpcs = <<>>
    /\ chan = <<>>
    /\ pc = [t \in Tasks |-> "idle"]
    /\ loc = [t \in Tasks |-> NoLoc]
    /\ ret \in {[task |-> None, op |-> "input", res |-> None, val |-> x] : x \in S}
    /\ ops = 0

Applied(op, res, val) ==
    /\ ret.op = "input"
    /\ ret' = [task |-> None, op |-> op, res |-> res, val |-> val]
    /\ UNCHANGED <<nodeVars, allocVars, reference_counter, regVars, connVars,
                   wireVars, recvVars, rpcVars, pc, loc, ops>>

\* 64-bit integers around zero, a byte and the limits.
Words == {I64(0), I64(1), I64(-1), I64(255), I64(256), I64(-256), I64Max, I64Min}
\* Magnitudes of one, two, eight and nine digit bytes, least significant
\* first, some with zero bytes at the top as BigInt::new accepts them.
Magnitudes ==
    {<<>>, <<0>>, <<1>>, <<255>>, <<0, 1>>, <<1, 0>>, <<1, 2>>, <<2, 1>>,
     <<0, 0, 0, 0, 0, 0, 0, 128>>,
     <<255, 255, 255, 255, 255, 255, 255, 127>>,
     <<0, 0, 0, 0, 0, 0, 0, 0, 1>>,
     <<1, 0, 0, 0, 0, 0, 0, 0, 0>>,
     <<255, 255, 255, 255, 255, 255, 255, 127, 1>>}
Numbers ==
    {Integer(w) : w \in Words}
    \cup {BigIntTerm(s, d) : s \in BOOLEAN, d \in Magnitudes}
    \cup {FloatTerm(n) : n \in BOOLEAN}
\* Two terms of every other variant, where the variant has two.
OtherTerms ==
    {AtomTerm("ok"), AtomTerm("error"),
     ReferenceTerm("a@h", 1, <<1>>), ReferenceTerm("b@h", 2, <<7, 1>>),
     ExternalFunTerm("ok", "error", 0),
     InternalFunTerm("ok", 3, [node |-> "a@h", id |-> 1, serial |-> 0, creation |-> 1],
                     <<Integer(I64(1))>>),
     PortTerm("a@h", 1, 1), PortTerm("b@h", 9, 1),
     PidTerm("a@h", 1, 2, 3), PidTerm("b@h", 0, 0, 1),
     TupleTerm(<<>>), TupleTerm(<<Integer(I64Max), AtomTerm("ok")>>),
     MapTerm(<<>>), MapTerm(<<<<AtomTerm("ok"), Integer(I64(1))>>>>),
     NilTerm, ListTerm(<<>>), ListTerm(<<Integer(I64(1))>>),
     ImproperListTerm(<<Integer(I64(1))>>, AtomTerm("ok")),
     BinaryTerm(<<>>), BinaryTerm(<<1, 2, 3>>),
     BitBinaryTerm(<<255>>, 3), StringTerm("ok")}
CmpInputs == [a : Numbers \cup OtherTerms, b : Numbers \cup OtherTerms]

\* t1.cmp(t2)
CmpApply == Applied("cmp", Cmp(ret.val.a, ret.val.b), ret.val)

NextCmp == CmpApply
SpecCmp == Inputs(CmpInputs) /\ [][NextCmp]_vars

\* Pids whose fields are small, around 2^16 and at the 32-bit limits.
U32Words == {U32(0), U32(9), U32(10), U32(1234), U32(65536), U32(2147483647), U32Max,
             [k \in 1..4 |-> IF k = 4 THEN 128 ELSE 0]}
PidInputs == [node : {"a@h"}, id : U32Words, serial : U32Words, creation : U32Words]

\* format!("{}", pid)
PidFormat == Applied("to_string", "Ok", [pid |-> ret.val, str |-> Display(ret.val)])

\* ExternalPid::from_string(node, &formatted)
PidParse ==
    /\ ret.op = "to_string"
    /\ LET r == FromString(ret.val.pid.node, ret.val.str)
       IN ret' = [task |-> None, op |-> "from_string",
                  res |-> IF r.ok THEN "Ok" ELSE "InvalidPidFormat",
                  val |-> [pid |-> ret.val.pid, str |-> ret.val.str, parsed |-> r]]
    /\ UNCHANGED <<nodeVars, allocVars, reference_counter, regVars, connVars,
                   wireVars, recvVars, rpcVars, pc, loc, ops>>

NextPid == PidFormat \/ PidParse
SpecPid == Inputs(PidInputs) /\ [][NextPid]_vars

\* Terms built from integers, atoms, binaries, lists, tuples and maps:
\* integers around the bounds of each encoded form, containers of zero, one
\* and two elements, and containers inside containers.
CodecWords ==
    {I64(0), I64(255), I64(256), I64(-1), I64(2147483647), I64(-2147483647 - 1),
     [k \in 1..8 |-> IF k = 4 THEN 128 ELSE 0],
     [k \in 1..8 |-> IF k = 4 THEN 127 ELSE 255],
     I64Max, I64Min}
SimpleTerms ==
    {Integer(w) : w \in CodecWords}
    \cup {AtomTerm("ok"), AtomTerm("error"), BinaryTerm(<<>>), BinaryTerm(<<1, 2, 3>>)}
Elems == {Integer(I64(1)), Integer(I64Max), AtomTerm("ok"), BinaryTerm(<<1, 2, 3>>)}
ElemSeqs == {<<>>} \cup {<<x>> : x \in Elems} \cup {<<x, y>> : x \in Elems, y \in Elems}
MapKeys == {Integer(I64(1)), Integer(I64(256)), AtomTerm("ok")}
MapValues == {Integer(I64Min), AtomTerm("error")}
MapTerms ==
    {MapTerm(<<>>)}
    \cup {MapTerm(MapCollect(<<>>, <<k, v>>)) : k \in MapKeys, v \in MapValues}
    \cup {MapTerm(MapCollect(<<>>, <<k1, v1, k2, v2>>)) :
             k1 \in MapKeys, v1 \in MapValues, k2 \in MapKeys, v2 \in MapValues}
NestedTerms ==
    {ListTerm(<<TupleTerm(<<x>>), MapTerm(<<<<y, ListTerm(<<x>>)>>>>)>>) :
        x \in Elems, y \in Elems}
    \cup {TupleTerm(<<ListTerm(<<>>), MapTerm(<<<<TupleTerm(<<x>>), BinaryTerm(<<>>)>>>>)>>) :
            x \in Elems}
CodecInputs ==
    SimpleTerms \cup {ListTerm(s) : s \in ElemSeqs} \cup {TupleTerm(s) : s \in ElemSeqs}
    \cup MapTerms \cup NestedTerms

\* encode(&term)
CodecEncode == Applied("encode", "Ok", [term |-> ret.val, bytes |-> Encode(ret.val)])

\* decode(&encoded)
CodecDecode ==
    /\ ret.op = "encode"
    /\ LET r == Decode(ret.val.bytes)
       IN ret' = [task |-> None, op |-> "decode",
                  res |-> IF r.ok THEN "Ok" ELSE "DecodeError",
                  val |-> [term |-> ret.val.term, bytes |-> ret.val.bytes, decoded |-> r]]
    /\ UNCHANGED <<nodeVars, allocVars, reference_counter, regVars, connVars,
                   wireVars, recvVars, rpcVars, pc, loc, ops>>

NextCodec == CodecEncode \/ CodecDecode
SpecCodec == Inputs(CodecInputs) /\ [][NextCodec]_vars

\* A cache after new(), and after insert(i, atom) for the first n indices as
\* a decoder leaves it that has seen n slots installed; `hist` lists the
\* insert calls made since.
CacheAfter(n) == [i \in CacheSlots |-> IF i < n THEN Some(AtomTerm("rex")) ELSE CacheNew[i]]
CacheInputs ==
    {[slots |-> CacheAfter(n), base |-> n, hist |-> <<>>, index |-> 0, got |-> NoneV] :
        n \in {0, 255, 256}}
CacheIndexes == {0, 5, 255}
CacheAtoms == {AtomTerm("ok"), AtomTerm("error")}

\* cache.insert(index, atom)
AtomCacheInsert(index, atom) ==
    /\ ret.op \in {"input", "insert", "get"}
    /\ ops < MaxOps
    /\ ops' = ops + 1
    /\ ret' = [task |-> None, op |-> "insert", res |-> "Ok",
               val |-> [ret.val EXCEPT !.slots = CacheInsert(ret.val.slots, index, atom),
                                       !.hist = Append(ret.val.hist, <<index, atom>>),
                                       !.index = index, !.got = NoneV]]
    /\ UNCHANGED <<nodeVars, allocVars, reference_counter, regVars, connVars,
                   wireVars, recvVars, rpcVars, pc, loc>>

\* cache.get(index)
AtomCacheGet(index) ==
    /\ ret.op \in {"input", "insert", "get"}
    /\ ops < MaxOps
    /\ ops' = ops + 1
    /\ ret' = [task |-> None, op |-> "get", res |-> "Ok",
               val |-> [ret.val EXCEPT !.index = index,
                                       !.got = CacheGet(ret.val.slots, index)]]
    /\ UNCHANGED <<nodeVars, allocVars, reference_counter, regVars, connVars,
                   wireVars, recvVars, rpcVars, pc, loc>>

NextCache ==
    \/ \E i \in CacheIndexes, a \in CacheAtoms : AtomCacheInsert(i, a)
    \/ \E i \in CacheIndexes : AtomCacheGet(i)
SpecCache == Inputs(CacheInputs) /\ [][NextCache]_vars

\* A peer that sends to names, while the names are bound and released.
RegSendFrames == [kind : {"RegSend"}, to_name : RegNames \cup {"nobody"}]

NextRegSend ==
    \/ \E p \in Peers : ConnectBegin("t1", p)
    \/ \E a \in HandshakeAnswers : ConnectHandshake("t1", a)
    \/ ConnectInsert("t1")
    \/ \E t \in Tasks, n \in RegNames, pid \in {PidA, PidB} : Register(t, n, pid)
    \/ \E t \in Tasks, n \in RegNames : Unregister(t, n)
    \/ \E c \in Conns, f \in RegSendFrames : PeerSend(c, f)
    \/ \E c \in Conns : RecvRead(c)
    \/ \E c \in Conns : RecvRoute(c)

SpecRegSend == InitSpawned /\ [][NextRegSend]_vars

\* Links and unlinks among the two spawned processes and a process of a peer
\* the node was never connected to.
NextLinkDown ==
    \/ \E t \in Tasks, op \in {"link", "unlink"}, from \in {PidA, PidB},
          to \in {PidA, PidB, RemoteTarget} : LinkBegin(t, op, from, to)
    \/ \E t \in Tasks : LinkTo(t)

SpecLinkDown == InitSpawned /\ [][NextLinkDown]_vars

\* Frames for the two spawned processes while the first one terminates.
ClosedFrames ==
    [kind : {"Send"}, to : {PidA, PidB}]
    \cup [kind : {"Exit"}, from : {RemoteTarget}, to : {PidA}, reason : {"normal"}]

NextClosed ==
    \/ \E t \in Tasks, p \in Peers : ConnectBegin(t, p)
    \/ \E t \in Tasks, a \in HandshakeAnswers : ConnectHandshake(t, a)
    \/ \E t \in Tasks : ConnectInsert(t)
    \/ \E c \in Conns, f \in ClosedFrames : PeerSend(c, f)
    \/ \E c \in Conns : RecvRead(c)
    \/ \E c \in Conns : RecvRoute(c)
    \/ \E t \in Tasks : TerminateBegin(t, PidA, "normal")
    \/ \E t \in Tasks : TerminateRemove(t)

SpecClosed == InitSpawned /\ [][NextClosed]_vars

\* Frames that can answer an RPC, and one the router ignores.
ReplyFrames ==
    [kind : {"Send"}, to : ReplyPids \cup {[pid EXCEPT !.node = PeerName] : pid \in ReplyPids}]
    \cup [kind : {"Other"}]

\* Connections and RPCs against a peer that answers or stays silent.
NextRpc ==
    \/ \E t \in Tasks, p \in Peers : ConnectBegin(t, p)
    \/ \E t \in Tasks, a \in HandshakeAnswers : ConnectHandshake(t, a)
    \/ \E t \in Tasks : ConnectInsert(t)
    \/ \E c \in Conns, f \in ReplyFrames : PeerSend(c, f)
    \/ \E c \in Conns : RecvRead(c)
    \/ \E c \in Conns : RecvRoute(c)
    \/ \E c \in Conns : RecvFail(c)
    \/ \E c \in Conns : RecvRemove(c)
    \/ \E t \in Tasks : Lock(t)
    \/ \E t \in Tasks : Write1(t)
    \/ \E t \in Tasks : Write2(t)
    \/ \E t \in Tasks : WriteFail(t)
    \/ \E t \in Tasks, p \in Peers : RpcBegin(t, p)
    \/ \E t \in Tasks : RpcLookup(t)
    \/ \E t \in Tasks : RpcTimeout(t)
    \/ \E t \in Tasks : RpcTimedOut(t)
    \/ \E t \in Tasks : RpcReturn(t)
    \/ \E t \in Tasks : RpcCancel(t)

SpecRpc == InitNamed /\ [][NextRpc]_vars

\* RPCs against a peer that never sends a frame.
NextSilent ==
    \/ \E t \in Tasks, p \in Peers : ConnectBegin(t, p)
    \/ \E t \in Tasks, a \in HandshakeAnswers : ConnectHandshake(t, a)
    \/ \E t \in Tasks : ConnectInsert(t)
    \/ \E c \in Conns : PeerClose(c)
    \/ \E c \in Conns : RecvFail(c)
    \/ \E c \in Conns : RecvRemove(c)
    \/ \E t \in Tasks : Lock(t)
    \/ \E t \in Tasks : Write1(t)
    \/ \E t \in Tasks : Write2(t)
    \/ \E t \in Tasks : WriteFail(t)
    \/ \E t \in Tasks, p \in Peers : RpcBegin(t, p)
    \/ \E t \in Tasks : RpcLookup(t)
    \/ \E t \in Tasks : RpcTimeout(t)
    \/ \E t \in Tasks : RpcTimedOut(t)

\* The steps of tasks that are already running.  The runtime polls every
\* ready task and the 10 s timer fires, so one that can be taken eventually
\* is; nothing obliges callers to start operations or the peer to close.
RunSilent ==
    \/ \E t \in Tasks, a \in HandshakeAnswers : ConnectHandshake(t, a)
    \/ \E t \in Tasks : ConnectInsert(t)
    \/ \E c \in Conns : RecvFail(c)
    \/ \E c \in Conns : RecvRemove(c)
    \/ \E t \in Tasks : Lock(t)
    \/ \E t \in Tasks : Write1(t)
    \/ \E t \in Tasks : Write2(t)
    \/ \E t \in Tasks : WriteFail(t)
    \/ \E t \in Tasks : RpcLookup(t)
    \/ \E t \in Tasks : RpcTimeout(t)
    \/ \E t \in Tasks : RpcTimedOut(t)

FairSilent == InitNamed /\ [][NextSilent]_vars /\ WF_vars(RunSilent)

\* ============================================================== properties
\* The key under which a running rpc_call_raw registered its waiter.
KeyOf(t) == PidKey(Unwrap(loc[t].pid))

\* Positions of a caller inside rpc_call_raw.
InRpc(t) == loc[t].op = "rpc_call" /\ pc[t] # "idle"

\* C1: when the wait for the reply times out, rpc_call_raw returns RpcTimeout
\* and at that return the pending-RPC table has no entry under the key of
\* the call's reply pid.
TimeoutLeavesNoWaiter ==
    [][\A t \in Tasks :
         (pc[t] = "rpc_timedout" /\ pc'[t] = "idle")
            => /\ ret' = Result(t, "rpc_call", "RpcTimeout")
               /\ KeyOf(t) \notin DOMAIN pending_rpcs']_vars

\* A call has returned RpcTimeout after its frame went out on a connection.
TimeoutReturned ==
    /\ ret.op = "rpc_call" /\ ret.res = "RpcTimeout"
    /\ \E k \in DOMAIN chan : chan[k].st = "rx_dropped"
    /\ \E c \in Conns : \E i \in DOMAIN out[c] : out[c][i].op = "rpc_call"

\* C2: a reply addressed to reply pid P reaches only the waiter registered
\* under P, a waiter gets at most one reply, a delivered reply leaves no
\* entry under P's key, and a call returns only a reply addressed to it.
RepliesReachTheirWaiter ==
    /\ \A k \in DOMAIN chan :
        /\ chan[k].n <= 1
        /\ IsSome(chan[k].to) =>
              \A k2 \in DOMAIN chan : chan[k2].pid = Unwrap(chan[k].to) => k2 = k
        /\ chan[k].st = "value" =>
              /\ IsSome(chan[k].val)
              /\ PidKey(chan[k].pid) \notin DOMAIN pending_rpcs
    /\ \A key \in DOMAIN pending_rpcs : PidKey(chan[pending_rpcs[key]].pid) = key

\* Two calls were in flight together and one of them got the reply that was
\* addressed to its own reply pid.
ReplyAmongConcurrentCalls ==
    /\ Cardinality(DOMAIN chan) >= 2
    /\ \E k \in DOMAIN chan :
          chan[k].st = "value" /\ chan[k].to = Some(chan[k].pid)
    /\ \E t \in Tasks : pc[t] = "rpc_wait"

\* C3: when an rpc_call is cancelled while it waits for its reply, the
\* waiter it registered is no longer in the pending-RPC table.
CancelRemovesWaiter ==
    [][\A t \in Tasks :
         (pc[t] = "rpc_wait" /\ pc'[t] = "idle" /\ ret'.res = "Dropped")
            => KeyOf(t) \notin DOMAIN pending_rpcs']_vars

\* C4: every rpc_call_raw invocation eventually returns to its caller, also
\* when the peer never answers.
RpcEventuallyReturns == \A t \in Tasks : InRpc(t) ~> ~InRpc(t)

\* C5: connect to a peer that already has an entry in the connections table
\* returns Ok and changes nothing: no Connection is built, no handshake runs,
\* the stored connection stays, no receiver task is spawned.
ConnectIdempotent ==
    [][\A t \in Tasks, p \in Peers :
         (p \in DOMAIN connections /\ ConnectBegin(t, p))
            => /\ ret'.task = t /\ ret'.op = "connect" /\ ret'.res = "Ok"
               /\ UNCHANGED <<nodeVars, allocVars, reference_counter, regVars,
                              connVars, wireVars, recvVars, rpcVars, pc, loc>>]_vars

\* A connect has returned through the already-connected path.
ConnectedTwice ==
    /\ ret.op = "connect" /\ ret.res = "Ok"
    /\ ret.val = Some([path |-> "already connected"])
    /\ PeerName \in DOMAIN connections
    /\ nconn = 1

\* C6: the connections table has an entry for a peer only if the handshake of
\* the stored connection with that peer reached established; a connect whose
\* handshake fails returns the error, inserts nothing and spawns no receiver.
OnlyEstablishedConnections ==
    [][/\ \A p \in DOMAIN connections' :
            /\ conn_hs'[connections'[p]] = "established"
            /\ conn_peer'[connections'[p]] = Some(p)
       /\ \A c \in Conns :
            conn_hs'[c] # "established" =>
                /\ rpc'[c] = "none"
                /\ \A p \in DOMAIN connections' : connections'[p] # c
       /\ \A t \in Tasks :
            (pc[t] = "handshake" /\ conn_hs'[loc[t].conn] = "failed")
                => /\ pc'[t] = "idle"
                   /\ ret' = Result(t, "connect", "Client")
                   /\ connections' = connections
                   /\ rpc' = rpc]_vars

\* One connect failed in its handshake and another one went through.
FailedAndEstablished ==
    /\ \E c \in Conns : conn_hs[c] = "failed"
    /\ \E c \in Conns : conn_hs[c] = "established" /\ rpc[c] # "none"
    /\ \A t \in Tasks : Idle(t)

\* C7: start on a node that was already started returns NodeAlreadyStarted,
\* sends nothing to the port-mapper and leaves creation and listen port alone.
RestartRefused ==
    [][\A t \in Tasks, reply \in StartInputs :
         (started /\ Start(t, reply))
            => /\ ret' = Result(t, "start", "NodeAlreadyStarted")
               /\ UNCHANGED <<epmd_calls, creation, alloc_creation, listen_port>>]_vars

\* A second start was refused after a first one had registered the node.
StartedThenRefused ==
    /\ ret.op = "start" /\ ret.res = "NodeAlreadyStarted"
    /\ epmd_calls = 1 /\ IsSome(listen_port)

\* C8: every name resolves to at most one pid, and register on a name that is
\* bound fails with NameAlreadyRegistered and leaves whereis(name) as it was.
NamesResolveToOnePid ==
    [][/\ \A e1 \in names', e2 \in names' : e1[1] = e2[1] => e1 = e2
       /\ \A t \in Tasks, n \in RegNames, pid \in procs \cup RemotePids :
            (IsSome(WhereIs(n)) /\ Register(t, n, pid))
                => /\ ret' = Result(t, "register", "NameAlreadyRegistered")
                   /\ names' = names]_vars

\* A register on a bound name was refused.
ReRegisterRefused ==
    /\ ret.op = "register" /\ ret.res = "NameAlreadyRegistered"
    /\ \E e \in names : e[1] = "echo"

\* Messages of pid's mailbox that arrived on connection c, as the positions
\* of their frames in the stream.
ArrivedOn(pid, c) ==
    LET RECURSIVE Pick(_)
        Pick(q) == IF q = <<>> THEN <<>>
                   ELSE IF TagOf(Head(q)).c = c
                        THEN <<TagOf(Head(q)).n>> \o Pick(Tail(q))
                        ELSE Pick(Tail(q))
    IN Pick(mailbox[pid])

\* C9: the messages a connection delivers to one mailbox are queued in the
\* order of their frames, and a frame is routed before the next one is read:
\* every unread frame is later in the stream than the one being routed and
\* than every message already queued.
MailboxKeepsFrameOrder ==
    \A c \in Conns :
        /\ \A pid \in DOMAIN mailbox :
            LET ns == ArrivedOn(pid, c) IN
            /\ \A i \in DOMAIN ns, j \in DOMAIN ns : i < j => ns[i] < ns[j]
            /\ \A i \in DOMAIN ns :
                /\ \A q \in DOMAIN inq[c] : ns[i] < inq[c][q].body.n
                /\ rpc[c] = "route" => ns[i] < rcur[c].body.n
        /\ rpc[c] = "route" =>
              \A q \in DOMAIN inq[c] : rcur[c].body.n < inq[c][q].body.n
        /\ \A q \in DOMAIN inq[c], r \in DOMAIN inq[c] :
              q < r => inq[c][q].body.n < inq[c][r].body.n

\* Two frames of one connection were delivered to the same mailbox.
TwoFramesQueued ==
    \E c \in Conns : \E pid \in DOMAIN mailbox : Len(ArrivedOn(pid, c)) >= 2

\* Tasks in the middle of writing a frame on connection c.
Writers(c) == {t \in Tasks : pc[t] \in {"write1", "write2"} /\ loc[t].conn = c}

UnlinkEmitted(c, a, r) ==
    \E i \in DOMAIN out[c] :
        /\ out[c][i].op = "unlink" /\ out[c][i].part = 2
        /\ out[c][i].from = Some(a) /\ out[c][i].to = Some(r)

\* C11: once unlink(from, to) has emitted its UnlinkId to a remote `to`, an
\* Exit from `to` that is routed before any acknowledgement has arrived (it
\* is the first frame the connection delivers) adds nothing to from's mailbox.
ExitSuppressedAfterUnlink ==
    [][\A c \in Conns :
         (/\ rpc[c] = "route" /\ rpc'[c] = "recv"
          /\ rcur[c].f.kind = "Exit"
          /\ rcur[c].body.n = 1
          /\ rcur[c].f.to \in procs
          /\ UnlinkEmitted(c, rcur[c].f.to, rcur[c].f.from))
            => mailbox'[rcur[c].f.to] = mailbox[rcur[c].f.to]]_vars

\* C12: every UnlinkId the receiver takes from a connection is eventually
\* answered on that connection with an UnlinkIdAck that carries the same id
\* (from the unlinked local process back to the peer's process).
UnlinkIdAcknowledged ==
    \A c \in Conns, f \in UnlinkIdFrames :
        (rpc[c] = "route" /\ rcur[c].f = f /\ f.kind = "UnlinkId")
            ~> (\E i \in DOMAIN out[c] :
                    /\ out[c][i].op = "unlink_id_ack"
                    /\ out[c][i].ref = Some(f.id)
                    /\ out[c][i].from = Some(f.to) /\ out[c][i].to = Some(f.from))

\* C13: unlink(from, to) takes `to` out of from's link set as its first act,
\* whatever happens afterwards, and no outcome of the call (Ok,
\* NodeNotConnected, a write error) puts it back.
UnlinkAlwaysRemoves ==
    [][\A t \in Tasks :
         /\ (pc[t] = "idle" /\ pc'[t] = "link_to" /\ loc'[t].op = "unlink")
               => LET from == Unwrap(loc'[t].from)
                      to == Unwrap(loc'[t].to)
                  IN from \in DOMAIN links => to \notin links'[from]
         /\ (loc[t].op = "unlink" /\ pc[t] # "idle" /\ pc'[t] = "idle")
               => LET from == Unwrap(loc[t].from)
                      to == Unwrap(loc[t].to)
                  IN from \in DOMAIN links =>
                        (to \in links'[from] => to \in links[from])]_vars

\* An unlink from the peer's process failed after a link had put that
\* process into the link set, and the set no longer holds it.
UnlinkFailedButRemoved ==
    \E u \in Tasks :
        /\ ret.op = "unlink" /\ ret.res \in {"Client", "NodeNotConnected"}
        /\ ret.task # u
        /\ loc[u].op = "link" /\ loc[u].to = Some(RemoteTarget)
        /\ pc[u] \in {"lock", "write1", "write2"}
        /\ RemoteTarget \notin links[PidA]

\* C14: for the two spawned pids a and b, whenever no link or unlink call is
\* in flight, b is in a's link set exactly when a is in b's.
LinksSymmetricWhenQuiet ==
    (\A t \in Tasks : Idle(t)) => (PidB \in links[PidA] <=> PidA \in links[PidB])

RecordedRefs == {e[2] : e \in UNION {monitors[q] : q \in DOMAIN monitors}}

\* C16: a reference returned by make_reference or monitor differs from every
\* reference the node returned before it: from those recorded as monitors
\* and from the one returned last, however the calls interleave.
ReferencesDistinct ==
    [][\A t \in Tasks :
        (/\ pc[t] \in {"make_ref", "monitor_to"} /\ pc'[t] = "idle"
         /\ ret'.op \in {"make_reference", "monitor"} /\ ret'.res = "Ok")
        => /\ Unwrap(ret'.val) \notin RecordedRefs
           /\ (ret.op \in {"make_reference", "monitor"} => ret'.val # ret.val)]_vars

\* C17: send(pid, term) takes the local path exactly when pid.node is the
\* node's name.  A local pid without a handle gives ProcessNotFound, a remote
\* pid whose node has no connection gives NodeNotConnected, and in both cases
\* the call is over with every mailbox and every connection's output as
\* before; a local pid with a handle is delivered to its mailbox only, and a
\* remote pid on a connected node goes on to that connection without touching
\* a mailbox.
SendTakesTheRightPath ==
    [][\A t \in Tasks, to \in LocalTargets \cup {RemoteTarget} :
        Send(t, to) =>
          IF to.node = name
          THEN /\ out' = out /\ pc' = pc
               /\ IF to \in procs
                  THEN /\ ret' = Result(t, "send", "Ok")
                       /\ Len(mailbox'[to]) = Len(mailbox[to]) + 1
                       /\ \A p \in procs \ {to} : mailbox'[p] = mailbox[p]
                  ELSE /\ ret' = Result(t, "send", "ProcessNotFound")
                       /\ mailbox' = mailbox
          ELSE /\ mailbox' = mailbox /\ out' = out
               /\ IF to.node \in DOMAIN connections
                  THEN /\ pc'[t] = "lock" /\ loc'[t].conn = connections[to.node]
                       /\ ret' = ret
                  ELSE /\ ret' = Result(t, "send", "NodeNotConnected")
                       /\ pc' = pc]_vars

SendRefusedAfterLocalDelivery ==
    /\ ret.op = "send" /\ ret.res = "NodeNotConnected"
    /\ mailbox[PidA] # <<>> /\ mailbox[PidB] = <<>>
    /\ \A c \in Conns : out[c] = <<>>

SpawnReturnsFreshLocalPid ==
    [][\A t \in Tasks :
        (Spawn(t) /\ started)
        => /\ ret'.task = t /\ ret'.op = "spawn" /\ ret'.res = "Ok"
           /\ IsSome(ret'.val)
           /\ Unwrap(ret'.val).node = name
           /\ Unwrap(ret'.val) \notin procs
           /\ Unwrap(ret'.val) \in procs'
           /\ procs \subseteq procs']_vars

SpawnedTwice ==
    /\ ret.op = "spawn" /\ ret.res = "Ok"
    /\ Unwrap(ret.val) \in procs
    /\ Cardinality(procs) = 2
    /\ \A p \in procs : p.node = name

\* C20: once a connection's receiver task has left its loop (the stream
\* ended or no frame came in time), the peer's entry eventually is gone from
\* the connections table.
StoppedReceiverRemovesEntry ==
    \A c \in Conns :
        (rpc[c] = "removing")
        ~> (IsSome(conn_peer[c]) /\ Unwrap(conn_peer[c]) \notin DOMAIN connections)

\* C21: when the frame the receiver reads fails to decode, only that frame is
\* consumed: the receiver stays in its loop, the connections table and every
\* mailbox are as before, and the frames behind it are still waiting to be
\* read in their order.
DecodeErrorSkipsOneFrame ==
    [][\A c \in Conns :
        (/\ rpc[c] = "recv" /\ inq[c] # <<>>
         /\ Head(inq[c]).f.kind = "DecodeError"
         /\ Len(inq'[c]) < Len(inq[c]))
        => /\ rpc'[c] = "recv"
           /\ inq'[c] = Tail(inq[c])
           /\ connections' = connections
           /\ mailbox' = mailbox]_vars

\* The first frame of a connection did not decode and the second one was
\* delivered: the only message queued is that of the second frame.
DeliveredAfterDecodeError ==
    \E c \in Conns :
        /\ nsent[c] = 2 /\ inq[c] = <<>> /\ rpc[c] = "recv"
        /\ IsSome(conn_peer[c]) /\ Unwrap(conn_peer[c]) \in DOMAIN connections
        /\ Len(mailbox[PidA]) = 1
        /\ TagOf(mailbox[PidA][1]) = [c |-> c, n |-> 2]

\* C22: after a send to the peer has failed in its write, the peer's entry
\* eventually is gone from the connections table and no receiver task of a
\* connection to that peer is left in its loop.
WriteFailureDropsConnection ==
    (ret.op = "send" /\ ret.res = "Client")
    ~> (/\ PeerName \notin DOMAIN connections
        /\ \A c \in Conns : rpc[c] \notin {"recv", "route"})

Classes ==
    <<{"integer", "bigint", "float"}, {"atom"}, {"reference"},
      {"external_fun", "internal_fun"}, {"port"}, {"pid"}, {"tuple"}, {"map"},
      {"nil", "list", "improper_list"}, {"binary", "bit_binary", "string"}>>
ClassOf(t) == CHOOSE k \in 1..Len(Classes) : t.type \in Classes[k]

\* C25: two terms of different type classes are ordered by class alone,
\* numbers < atoms < references < funs < ports < pids < tuples < maps <
\* lists < binaries, whatever their contents.
ClassesOrderTerms ==
    (ret.op = "cmp" /\ ClassOf(ret.val.a) # ClassOf(ret.val.b))
        => ret.res = (IF ClassOf(ret.val.a) < ClassOf(ret.val.b) THEN "Less" ELSE "Greater")

\* A pid was compared with a port whose id is larger.
PidAbovePort ==
    /\ ret.op = "cmp"
    /\ ret.val.a.type = "pid"
    /\ ret.val.b.type = "port"
    /\ ret.val.a.id < ret.val.b.id
    /\ ret.res = "Greater"

\* The mathematical value of an integer term: whether it is below zero, and
\* its magnitude without the zero bytes at the top.
RECURSIVE Normal(_)
Normal(d) == IF d # <<>> /\ d[Len(d)] = 0 THEN Normal(SubSeq(d, 1, Len(d) - 1)) ELSE d
ValueOf(t) ==
    IF t.type = "integer"
    THEN [neg |-> IsNegativeI64(t.w),
          mag |-> Normal(IF IsNegativeI64(t.w) THEN WrappingNeg(t.w) ELSE t.w)]
    ELSE [neg |-> t.negative, mag |-> Normal(t.digits)]
SignOf(v) == IF v.mag = <<>> THEN 0 ELSE IF v.neg THEN -1 ELSE 1
CmpMagnitude(x, y) == ThenWith(CmpInt(Len(x), Len(y)), CmpSlice(Rev(x), Rev(y)))
CmpValue(x, y) ==
    IF SignOf(x) # SignOf(y) THEN CmpInt(SignOf(x), SignOf(y))
    ELSE IF SignOf(x) = 1 THEN CmpMagnitude(x.mag, y.mag)
    ELSE IF SignOf(x) = -1 THEN Reverse(CmpMagnitude(x.mag, y.mag))
    ELSE "Equal"

\* C26: for a 64-bit Integer and a BigInt (a sign and little-endian magnitude
\* bytes), in either order, cmp is the comparison of their mathematical
\* values.
IntegerAndBigIntByValue ==
    (ret.op = "cmp" /\ {ret.val.a.type, ret.val.b.type} = {"integer", "bigint"})
        => ret.res = CmpValue(ValueOf(ret.val.a), ValueOf(ret.val.b))

\* C27: for two BigInts cmp is the order of their mathematical values, also
\* when both magnitudes have the same number of digit bytes.
BigIntsByValue ==
    (ret.op = "cmp" /\ ret.val.a.type = "bigint" /\ ret.val.b.type = "bigint")
        => ret.res = CmpValue(ValueOf(ret.val.a), ValueOf(ret.val.b))

\* C28: for a pid with a node and any 32-bit id, serial and creation,
\* from_string on the node and the formatted pid succeeds and returns a pid
\* equal to the original.
PidStringRoundTrip ==
    ret.op = "from_string"
        => /\ ret.res = "Ok"
           /\ ret.val.parsed.ok
           /\ ret.val.parsed.pid = ret.val.pid

\* The pid <4294967295.2147483648.0> was formatted and parsed back.
LargestPidParsed ==
    /\ ret.op = "from_string"
    /\ ret.val.str = <<"<", "4", "2", "9", "4", "9", "6", "7", "2", "9", "5", ".",
                       "2", "1", "4", "7", "4", "8", "3", "6", "4", "8", ".", "0", ">">>
    /\ ret.val.parsed.ok
    /\ ret.val.parsed.pid.id = U32Max

RECURSIVE LastAt(_, _, _)
LastAt(hist, i, before) ==
    IF hist = <<>> THEN before
    ELSE IF hist[Len(hist)][1] = i THEN Some(hist[Len(hist)][2])
    ELSE LastAt(SubSeq(hist, 1, Len(hist) - 1), i, before)
LastInserted(v, i) == LastAt(v.hist, i, IF i < v.base THEN Some(AtomTerm("rex")) ELSE NoneV)
InsertedIndexes(v) == {i \in CacheSlots : i < v.base} \cup {v.hist[k][1] : k \in 1..Len(v.hist)}

\* C30: after any sequence of insert(index, atom) calls, get(i) returns the
\* atom inserted last at index i, and len is the number of distinct indices
\* inserted so far, never more than 256.
CacheHoldsLastInsert ==
    ret.op \in {"insert", "get"}
        => /\ \A i \in CacheSlots : CacheGet(ret.val.slots, i) = LastInserted(ret.val, i)
           /\ ret.op = "get" => ret.val.got = LastInserted(ret.val, ret.val.index)
           /\ CacheLen(ret.val.slots) = Cardinality(InsertedIndexes(ret.val))
           /\ CacheLen(ret.val.slots) <= 256

\* A full cache had slot 0 replaced and read back, and still holds 256 atoms.
FullCacheOverwritten ==
    /\ ret.op = "get"
    /\ ret.val.base = 256
    /\ ret.val.hist = <<<<0, AtomTerm("ok")>>, <<0, AtomTerm("error")>>>>
    /\ ret.val.index = 0
    /\ ret.val.got = Some(AtomTerm("error"))
    /\ CacheLen(ret.val.slots) = 256

ReturnLeavesNoWaiter ==
    [][\A t \in Tasks :
         (InRpc(t) /\ pc'[t] = "idle" /\ ret'.op = "rpc_call" /\ ret'.res # "Dropped")
            => KeyOf(t) \notin DOMAIN pending_rpcs']_vars

\* C33: the waiter of an rpc_call_raw is in the pending-RPC table before any
\* byte of its request is written: from the moment the call holds the
\* connection until it stops waiting, its oneshot channel exists for its
\* reply pid and, as long as nothing was sent on it and neither half was
\* dropped, the table holds its sender under the key of the reply pid.  A
\* reply to the request is therefore never routed before the registration.
WaiterRegisteredBeforeRequest ==
    \A t \in Tasks :
        (loc[t].op = "rpc_call" /\ pc[t] \in {"write1", "write2", "rpc_wait"})
            => /\ loc[t].chan \in DOMAIN chan
               /\ chan[loc[t].chan].pid = Unwrap(loc[t].pid)
               /\ chan[loc[t].chan].st = "open"
                    => /\ KeyOf(t) \in DOMAIN pending_rpcs
                       /\ pending_rpcs[KeyOf(t)] = loc[t].chan

\* A reply was routed to the waiter of a call whose request is on the wire.
ReplyRoutedToWaitingCall ==
    \E t \in Tasks :
        /\ loc[t].op = "rpc_call" /\ pc[t] = "rpc_wait"
        /\ chan[loc[t].chan].st = "value"
        /\ \E c \in Conns : \E i \in DOMAIN out[c] :
               out[c][i].fid = loc[t].fid /\ out[c][i].part = 2

\* C34: whatever the interleaving of concurrent connect calls to one peer,
\* at most one connection of that peer has a running receiver task, and a
\* receiver task that removes the peer's entry from the connections table
\* removes the entry of its own connection.
Receiving(c) == rpc[c] \in {"recv", "route", "removing"}

OneReceiverPerPeer ==
    [][/\ \A c, d \in Conns :
              (c # d /\ Receiving(c)' /\ Receiving(d)') => conn_peer'[c] # conn_peer'[d]
       /\ \A c \in Conns :
              (rpc[c] = "removing" /\ rpc'[c] = "exited"
                 /\ Unwrap(conn_peer[c]) \in DOMAIN connections)
                  => connections[Unwrap(conn_peer[c])] = c]_vars

\* C35: a start that fails with EpmdRegistration (a node name without '@',
\* or an error from the port-mapper) leaves the node not started, so that a
\* later start is attempted again and spawn still fails with NodeNotStarted.
FailedStartLeavesNotStarted ==
    [][(ops' # ops /\ ret'.op = "start" /\ ret'.res = "EpmdRegistration")
          => ~started']_vars

\* C36: link(from, to) to a pid of a node without a connection returns
\* NodeNotConnected and leaves from's link set as it was.  On a node that
\* never had a connection no link to the peer's process can have succeeded,
\* so after such a return from's link set does not hold the remote pid.
FailedLinkAddsNothing ==
    [][\A t \in Tasks :
         (pc[t] = "link_to" /\ loc[t].op = "link" /\ pc'[t] = "idle"
            /\ ret'.res = "NodeNotConnected")
           => Unwrap(loc[t].to) \notin links'[Unwrap(loc[t].from)]]_vars

\* C37: a spawn on a node that has not been started returns NodeNotStarted
\* and changes nothing: the pid allocator hands out no pid, no process is
\* started (none gets a handle, a mailbox, a link set or a monitor set) and
\* the registry, names included, is as before.
SpawnRefusedBeforeStart ==
    [][(ops' # ops /\ ret'.op = "spawn" /\ ~started)
          => /\ ret'.res = "NodeNotStarted"
             /\ ret'.val = NoneV
             /\ UNCHANGED <<allocVars, regVars, started, creation, listen_port>>]_vars

\* A spawn was refused on a node whose start has not been called, while the
\* allocator and the registry were in their initial state.
SpawnRefused ==
    /\ ret.op = "spawn" /\ ret.res = "NodeNotStarted"
    /\ ~started /\ procs = {} /\ next_id = 0

\* C38: cmp is a consistent total preorder on terms of every variant: for
\* all a, b and c, cmp(b, a) is the reverse of cmp(a, b), and when
\* cmp(a, b) is Equal, a and b compare alike with every c; among them the
\* terms of List, ImproperList and Nil and of Binary, String and BitBinary.
CmpIsConsistentPreorder ==
    ret.op = "cmp" =>
        /\ Cmp(ret.val.b, ret.val.a) = Reverse(ret.res)
        /\ ret.res = "Equal" =>
              \A c \in Numbers \cup OtherTerms : Cmp(ret.val.a, c) = Cmp(ret.val.b, c)

\* C39: the receiver task's removal of its peer's entry always completes,
\* and no caller stays for ever between taking the entry of the connections
\* table and releasing it, waiting for the connection's mutex or for its
\* write: senders and the receiver's cleanup do not deadlock.
CleanupNeverBlocked ==
    /\ \A c \in Conns : (rpc[c] = "removing") ~> (rpc[c] = "exited")
    /\ \A t \in Tasks : (pc[t] \in {"lock", "write1", "write2"}) ~> (pc[t] = "idle")

\* C40: when route_message fails for a frame (the mailbox of its target is
\* closed), the receiver only logs it: it goes back to reading, the peer's
\* entry stays in the connections table, no mailbox and no waiter changes,
\* and the frames behind the failed one are still there to be routed.
RouteFailureOnlyLogged ==
    [][\A c \in Conns :
         (rpc[c] = "route" /\ rpc'[c] # "route" /\ RouteFails(rcur[c]))
            => /\ rpc'[c] = "recv"
               /\ UNCHANGED <<connections, mailbox, pending_rpcs, chan, inq, open>>]_vars

\* The first frame of a connection was for the terminating process and could
\* not be delivered; the second one reached the other process's mailbox and
\* the receiver is still reading on the connection in the table.
RoutedAfterFailure ==
    \E c \in Conns :
        /\ rpc[c] = "recv" /\ connections = (PeerName :> c)
        /\ PidA \in procs /\ MailboxClosed(PidA) /\ mailbox[PidA] = <<>>
        /\ nsent[c] = 2 /\ inq[c] = <<>>
        /\ mailbox[PidB] = <<Regular([c |-> c, n |-> 2])>>

====
